---- MODULE Spec2Model ----
(***************************************************************************)
(* Verification model of usersim: the expression algebra of the           *)
(* pure-Python z3_compat shim, the fact namespace, the judgement          *)
(* procedure evaluate_person, and the drivers built on it.                 *)
(*                                                                         *)
(* Scores are kept in ten-thousandths (round(score, 4) * 10000), so that   *)
(* 1.0 is ScoreScale and 0.5 is 5000.                                      *)
(***************************************************************************)
EXTENDS Integers, Sequences, FiniteSets, TLC

VARIABLES pc, person, facts, outcome, attr, run, proc

vars == <<pc, person, facts, outcome, attr, run, proc>>

(***************************************************************************)
(* Bounds of the model.                                                    *)
(***************************************************************************)
\* numeric fact values range over -1..MaxVal
MaxVal == 2

(***************************************************************************)
(* Python values.  A bool is an int in Python's arithmetic and comparisons,*)
(* so both carry an integer; the tag only matters for str()/repr().        *)
(***************************************************************************)
PyBool(b) == [t |-> "bool", v |-> IF b THEN 1 ELSE 0]

PyNum(i) == [t |-> "num", v |-> i]

\* bool(v)
Truthy(val) == val.v # 0

\* str(v) / repr(v) of a bool or an int
PyStr(val) == IF val.t = "bool" THEN (IF val.v = 1 THEN "True" ELSE "False") ELSE ToString(val.v)

(***************************************************************************)
(* z3_compat._Expr: a closure (_fn, here op/sym/val/args), the text _repr, *)
(* and, for implications only, the attribute _antecedent (a sequence of    *)
(* length 0 or 1 here).                                                    *)
(***************************************************************************)
NoVal == PyNum(0)

MkExpr(op, sym, val, args, repr, ant) == [op |-> op, sym |-> sym, val |-> val, args |-> args, repr |-> repr, ant |-> ant]

\* _Expr(lambda env, _v=v: _v, repr_str)
ConstExpr(val, repr) == MkExpr("const", "", val, <<>>, repr, <<>>)

\* _lit(v) for a raw Python value v
_lit(val) == ConstExpr(val, PyStr(val))

BoolVal(b) == ConstExpr(PyBool(b), PyStr(PyBool(b)))

IntVal(i) == ConstExpr(PyNum(i), ToString(i))

\* engine._named_real_var: the value under the fact's name
_named_real_var(name, i) == ConstExpr(PyNum(i), name)

\* the operator symbols of _Expr.__eq__ .. __mul__ ("<=" and ">=" stand for
\* the characters U+2264 and U+2265 the shim prints)
CmpSyms == {"==", "!=", "<", "<=", ">", ">="}

ArithSyms == {"+", "-", "*"}

_binop(a, b, sym) == MkExpr("bin", sym, NoVal, <<a, b>>, "(" \o a.repr \o " " \o sym \o " " \o b.repr \o ")", <<>>)

RECURSIVE JoinReprs(_)
JoinReprs(args) == IF Len(args) = 0 THEN "" ELSE IF Len(args) = 1 THEN args[1].repr ELSE args[1].repr \o ", " \o JoinReprs(Tail(args))

And(args) == MkExpr("and", "", NoVal, args, "And(" \o JoinReprs(args) \o ")", <<>>)

Or(args) == MkExpr("or", "", NoVal, args, "Or(" \o JoinReprs(args) \o ")", <<>>)

Not(a) == MkExpr("not", "", NoVal, <<a>>, "Not(" \o a.repr \o ")", <<>>)

\* mutant of Implies: both sides have to hold
Implies_AsAnd(a, b) == MkExpr("and", "", NoVal, <<a, b>>, "If " \o a.repr \o ", then " \o b.repr, <<a>>)

Implies(a, b) == MkExpr("implies", "", NoVal, <<a, b>>, "If " \o a.repr \o ", then " \o b.repr, <<a>>)

\* mutant of named: the label is put on a copy that loses _antecedent
named_DropsAntecedent(label, expr) == [expr EXCEPT !.repr = label, !.ant = <<>>]

named(label, expr) == [expr EXCEPT !.repr = label]

(***************************************************************************)
(* Python ints are unbounded and every numeric fact is turned into a       *)
(* double.  A number of the model is an integer of the model checker as    *)
(* long as it is small, where doubles are exact; a non-negative number     *)
(* beyond that is "wide": its limbs to the base LimbBase, the least        *)
(* significant first and the most significant not 0.                       *)
(***************************************************************************)
LimbBase == 2 ^ 15

\* the significand of a double
MantissaBits == 53

RECURSIVE Limbs(_)
Limbs(n) == IF n = 0 THEN <<>> ELSE <<n % LimbBase>> \o Limbs(n \div LimbBase)

\* a wide number of at most two limbs is small
IsSmall(w) == Len(w) <= 2

RECURSIVE SmallOf(_)
SmallOf(w) == IF w = <<>> THEN 0 ELSE w[1] + LimbBase * SmallOf(Tail(w))

PyWide(w) == IF IsSmall(w) THEN PyNum(SmallOf(w)) ELSE [t |-> "wide", v |-> w]

\* the limbs of a non-negative number
WideOf(val) == IF val.t = "wide" THEN val.v ELSE Limbs(val.v)

\* w + c and w * c + carry for small c
RECURSIVE WideAdd(_, _)
WideAdd(w, c) ==
  IF c = 0 THEN w
  ELSE IF w = <<>> THEN Limbs(c)
  ELSE <<(w[1] + c) % LimbBase>> \o WideAdd(Tail(w), (w[1] + c) \div LimbBase)

RECURSIVE WideMul(_, _, _)
WideMul(w, c, carry) ==
  IF c = 0 THEN <<>>
  ELSE IF w = <<>> THEN Limbs(carry)
  ELSE <<(w[1] * c + carry) % LimbBase>> \o WideMul(Tail(w), c, (w[1] * c + carry) \div LimbBase)

\* -1, 0 or 1 as a is below, equal to or above b
RECURSIVE WideCmp(_, _)
WideCmp(a, b) ==
  IF Len(a) # Len(b) THEN (IF Len(a) < Len(b) THEN -1 ELSE 1)
  ELSE IF a = <<>> THEN 0
  ELSE IF a[Len(a)] # b[Len(b)] THEN (IF a[Len(a)] < b[Len(b)] THEN -1 ELSE 1)
  ELSE WideCmp(SubSeq(a, 1, Len(a) - 1), SubSeq(b, 1, Len(b) - 1))

\* the number of binary digits of a small number and of a wide one
RECURSIVE Bits(_)
Bits(n) == IF n = 0 THEN 0 ELSE 1 + Bits(n \div 2)

BitLength(w) == IF w = <<>> THEN 0 ELSE Bits(LimbBase - 1) * (Len(w) - 1) + Bits(w[Len(w)])

\* the nearest double, a tie going to the even significand (for numbers of
\* fewer than MantissaBits + Bits(LimbBase - 1) binary digits)
RoundToDouble(w) ==
  IF BitLength(w) <= MantissaBits THEN w
  ELSE LET unit == 2 ^ (BitLength(w) - MantissaBits)
           low  == w[1] % unit
           down == [w EXCEPT ![1] = w[1] - low]
           up   == WideAdd(down, unit)
           odd  == (w[1] \div unit) % 2 = 1
       IN  IF 2 * low < unit THEN down
           ELSE IF 2 * low > unit THEN up
           ELSE IF odd THEN up ELSE down

\* float(value) of an int
PyFloat(val) == IF val.t = "wide" THEN PyWide(RoundToDouble(val.v)) ELSE val

\* a comparison or a product of doubles of which one is wide and the other
\* is not negative, or a comparison of a negative double with a wide one
WideOp(sym, a, b) ==
  IF sym = "*" THEN
    IF a.t = "wide" THEN PyWide(RoundToDouble(WideMul(a.v, b.v, 0)))
    ELSE PyWide(RoundToDouble(WideMul(b.v, a.v, 0)))
  ELSE LET c == IF a.t # "wide" /\ a.v < 0 THEN -1
                ELSE IF b.t # "wide" /\ b.v < 0 THEN 1
                ELSE WideCmp(WideOf(a), WideOf(b))
       IN  CASE sym = "==" -> PyBool(c = 0)
             [] sym = "!=" -> PyBool(c # 0)
             [] sym = "<"  -> PyBool(c < 0)
             [] sym = "<=" -> PyBool(c <= 0)
             [] sym = ">"  -> PyBool(c > 0)
             [] sym = ">=" -> PyBool(c >= 0)

\* the lambdas of the comparison and arithmetic operators
PyOp(sym, a, b) ==
  IF a.t = "wide" \/ b.t = "wide" THEN WideOp(sym, a, b)
  ELSE
  CASE sym = "==" -> PyBool(a.v = b.v)
    [] sym = "!=" -> PyBool(a.v # b.v)
    [] sym = "<"  -> PyBool(a.v < b.v)
    [] sym = "<=" -> PyBool(a.v <= b.v)
    [] sym = ">"  -> PyBool(a.v > b.v)
    [] sym = ">=" -> PyBool(a.v >= b.v)
    [] sym = "+"  -> PyNum(a.v + b.v)
    [] sym = "-"  -> PyNum(a.v - b.v)
    [] sym = "*"  -> PyNum(a.v * b.v)

\* _Expr.__call__(env): every fact value is already embedded in the closure
RECURSIVE Call(_)
Call(e) ==
  CASE e.op = "const"   -> e.val
    [] e.op = "bin"     -> PyOp(e.sym, Call(e.args[1]), Call(e.args[2]))
    [] e.op = "and"     -> PyBool(\A i \in 1..Len(e.args) : Truthy(Call(e.args[i])))
    [] e.op = "or"      -> PyBool(\E i \in 1..Len(e.args) : Truthy(Call(e.args[i])))
    [] e.op = "not"     -> PyBool(~Truthy(Call(e.args[1])))
    [] e.op = "implies" -> PyBool((~Truthy(Call(e.args[1]))) \/ Truthy(Call(e.args[2])))

\* Solver().add(c).check() == sat
SolverCheck(c) == Truthy(Call(c))

(***************************************************************************)
(* The facts map of a perceptions document.  A fact is absent, a bool, a   *)
(* number or a string.                                                     *)
(***************************************************************************)
\* the facts of the test scenarios: two plain names and one to sanitise
CoreNames == {"x", "y", "is-up"}

\* the facts the constraint library reads (its perceptions contracts)
LibNames ==
  {"anonymized", "audit_events_expected", "audit_events_total", "bounce_count", "consecutive_errors",
   "consent_recorded", "corpus_size", "data_retention_days", "depth_p50", "depth_p90",
   "dropped_items", "elapsed_ms", "error_total", "exit_code", "has_error_message",
   "items_processed", "items_total", "output_valid_json", "p50_ms", "p95_ms",
   "p99_ms", "pii_fields_exposed", "pii_fields_total", "queue_depth", "request_total",
   "results_relevant", "results_returned", "sessions_returned", "sessions_total", "stderr_bytes",
   "stdout_bytes", "task_completion_pct", "top_k", "total_relevant", "traceback_present",
   "uptime_pct", "wall_clock_ms", "worker_count"}

FactNames == CoreNames \cup LibNames

Absent == [t |-> "absent", v |-> 0, s |-> ""]

FBool(b) == [t |-> "bool", v |-> IF b THEN 1 ELSE 0, s |-> ""]

FNum(i) == [t |-> "num", v |-> i, s |-> ""]

FStr(s) == [t |-> "str", v |-> 0, s |-> s]

\* an int beyond the small numbers, by its limbs
FWide(w) == [t |-> "wide", v |-> w, s |-> ""]

FactStrings == {"Yes", "no", "n/a"}

FactValues == {FBool(TRUE), FBool(FALSE)} \cup {FNum(i) : i \in -1..MaxVal} \cup {FStr(s) : s \in FactStrings}

EmptyFacts == [n \in FactNames |-> Absent]

\* the facts maps over the core names
FactMaps == {[n \in FactNames |-> IF n \in CoreNames THEN f[n] ELSE Absent] : f \in [CoreNames -> FactValues \cup {Absent}]}

\* name.replace("-", "_").replace(".", "_")
Safe(name) == IF name = "is-up" THEN "is_up" ELSE name

\* value.lower()
Lower(s) == IF s = "Yes" THEN "yes" ELSE s

SafeNames == {Safe(n) : n \in FactNames}

BoolAlias(safe) == safe \o "_bool"

\* every key _make_fact_vars can put into vars_, "_assignments" aside
VarKeys == SafeNames \cup {BoolAlias(k) : k \in SafeNames}

NoEntry == [has |-> FALSE, e |-> IntVal(0)]

Entry(e) == [has |-> TRUE, e |-> e]

\* the fact whose sanitised name is k
FactOf(k) == CHOOSE n \in FactNames : Safe(n) = k

\* vars_[k] after the loop of _make_fact_vars, for a sanitised fact name k
FactVar(fs, k) ==
  LET val == fs[FactOf(k)] IN
  CASE val.t = "bool" -> Entry(BoolVal(val.v = 1))
    [] val.t = "num"  -> Entry(_named_real_var(k, val.v))
    [] val.t = "wide" -> Entry(ConstExpr(PyFloat(PyWide(val.v)), k))
    [] val.t = "str"  -> IF Lower(val.s) \in {"true", "yes", "1"} THEN Entry(BoolVal(TRUE))
                         ELSE IF Lower(val.s) \in {"false", "no", "0"} THEN Entry(BoolVal(FALSE))
                         ELSE NoEntry
    [] OTHER -> NoEntry

\* vars_[k + "_bool"]: the Bool alias of a numeric fact equal to 0 or 1
AliasVar(fs, k) ==
  LET val == fs[FactOf(k)] IN
  IF val.t = "num" /\ val.v \in {0, 1} THEN Entry(BoolVal(val.v = 1)) ELSE NoEntry

\* mutant of _make_fact_vars: the table built for a facts map is kept and
\* handed out again when the next evaluation has the same facts
_make_fact_vars_Cached(fs) ==
  IF run.cmd = "evaluate_person" /\ run.facts = fs THEN run.live
  ELSE
    [vars |-> [k \in VarKeys |-> IF k \in SafeNames THEN FactVar(fs, k)
                                 ELSE AliasVar(fs, CHOOSE s \in SafeNames : BoolAlias(s) = k)],
     assignments |-> [k \in SafeNames |-> IF fs[FactOf(k)].t = "num" THEN <<fs[FactOf(k)].v>>
                                          ELSE IF fs[FactOf(k)].t = "wide" THEN <<PyFloat(PyWide(fs[FactOf(k)].v)).v>>
                                            ELSE <<>>],
     hasAssignments |-> TRUE]

\* engine._make_fact_vars: the table of fact variables and, under the key
\* "_assignments", the map of the numeric facts
_make_fact_vars(fs) ==
  [vars |-> [k \in VarKeys |-> IF k \in SafeNames THEN FactVar(fs, k)
                               ELSE AliasVar(fs, CHOOSE s \in SafeNames : BoolAlias(s) = k)],
   assignments |-> [k \in SafeNames |-> IF fs[FactOf(k)].t = "num" THEN <<fs[FactOf(k)].v>>
                                          ELSE IF fs[FactOf(k)].t = "wide" THEN <<PyFloat(PyWide(fs[FactOf(k)].v)).v>>
                                          ELSE <<>>],
   hasAssignments |-> TRUE]

\* The sentinel of an unobserved fact.
SentinelValue == -1

\* mutant of Sentinel: an unobserved fact reads as 0
Sentinel_Zero == IntVal(0)

Sentinel == IntVal(SentinelValue)

\* what reading an attribute yields: an expression or the _assignments dict
AttrExpr(e) == [kind |-> "expr", e |-> e]

AttrDict == [kind |-> "dict", e |-> IntVal(0)]

\* mutant of FactNamespace_getattr: a miss yields 0 instead of the sentinel
FactNamespace_getattr_ZeroOnMiss(fv, name) ==
  IF name = "_assignments" /\ fv.hasAssignments THEN AttrDict
  ELSE IF name \in VarKeys /\ fv.vars[name].has THEN AttrExpr(fv.vars[name].e)
  ELSE AttrExpr(IntVal(0))

\* FactNamespace.__getattr__: self._vars[name], the sentinel on KeyError
FactNamespace_getattr(fv, name) ==
  IF name = "_assignments" /\ fv.hasAssignments THEN AttrDict
  ELSE IF name \in VarKeys /\ fv.vars[name].has THEN AttrExpr(fv.vars[name].e)
  ELSE AttrExpr(Sentinel)

(***************************************************************************)
(* A persona's constraints(P) is a list of constructor terms over P: the   *)
(* terms are built against the namespace when constraints(P) is called.    *)
(***************************************************************************)
Term(k, s, i, args) == [k |-> k, s |-> s, i |-> i, args |-> args]

TFact(n) == Term("fact", n, 0, <<>>)

TInt(i) == Term("int", "", i, <<>>)

TBool(b) == Term("bool", "", IF b THEN 1 ELSE 0, <<>>)

TBin(sym, a, b) == Term("bin", sym, 0, <<a, b>>)

TAnd(args) == Term("and", "", 0, args)

TOr(args) == Term("or", "", 0, args)

TNot(a) == Term("not", "", 0, <<a>>)

TImplies(a, b) == Term("implies", "", 0, <<a, b>>)

TNamed(label, a) == Term("named", label, 0, <<a>>)

RECURSIVE Build(_, _)
Build(t, fv) ==
  CASE t.k = "fact"    -> FactNamespace_getattr(fv, t.s).e
    [] t.k = "int"     -> _lit(PyNum(t.i))
    [] t.k = "bool"    -> _lit(PyBool(t.i = 1))
    [] t.k = "bin"     -> _binop(Build(t.args[1], fv), Build(t.args[2], fv), t.s)
    [] t.k = "and"     -> And([i \in 1..Len(t.args) |-> Build(t.args[i], fv)])
    [] t.k = "or"      -> Or([i \in 1..Len(t.args) |-> Build(t.args[i], fv)])
    [] t.k = "not"     -> Not(Build(t.args[1], fv))
    [] t.k = "implies" -> Implies(Build(t.args[1], fv), Build(t.args[2], fv))
    [] t.k = "named"   -> named(t.s, Build(t.args[1], fv))

\* F applied to the value of e, which is computed once
Let(e, F(_)) == CHOOSE v \in {F(x) : x \in {e}} : TRUE

\* named() relabels the object it is given and returns it.  When that object
\* is a fact variable of the table, every later P.<name> of the same call
\* yields the relabelled object.  A built value is the expression, the key of
\* vars_ that holds this very object ("" for a new object) and the table.
Built(e, ref, fv) == [e |-> e, ref |-> ref, fv |-> fv]

\* P.<name>: the object of the table, or a new sentinel
GetFact(fv, name) ==
  Built(FactNamespace_getattr(fv, name).e, IF name \in VarKeys /\ fv.vars[name].has THEN name ELSE "", fv)

\* named(label, expr) on a built value: expr._repr = label; return expr
NamedIn(label, b) ==
  Built(named(label, b.e), b.ref,
        IF b.ref = "" THEN b.fv ELSE [b.fv EXCEPT !.vars[b.ref].e = named(label, b.e)])

\* the constructor of a term applied to its built arguments
Construct(t, es) ==
  CASE t.k = "bin"     -> _binop(es[1], es[2], t.s)
    [] t.k = "and"     -> And(es)
    [] t.k = "or"      -> Or(es)
    [] t.k = "not"     -> Not(es[1])
    [] t.k = "implies" -> Implies(es[1], es[2])

\* a term built against the table, and its arguments from left to right
RECURSIVE BuildIn(_, _)
RECURSIVE BuildArgs(_, _)
BuildIn(t, fv) ==
  CASE t.k = "fact"  -> GetFact(fv, t.s)
    [] t.k = "int"   -> Built(_lit(PyNum(t.i)), "", fv)
    [] t.k = "bool"  -> Built(_lit(PyBool(t.i = 1)), "", fv)
    [] t.k = "named" -> NamedIn(t.s, BuildIn(t.args[1], fv))
    [] OTHER         -> LET a == BuildArgs(t.args, fv) IN Built(Construct(t, a.es), "", a.fv)

BuildArgs(ts, fv) ==
  IF ts = <<>> THEN [es |-> <<>>, fv |-> fv]
  ELSE LET b    == BuildIn(Head(ts), fv)
           rest == BuildArgs(Tail(ts), b.fv)
       IN  [es |-> <<b.e>> \o rest.es, fv |-> rest.fv]

\* the elements of the list constraints() returns, in order, with the table
\* they leave behind
RECURSIVE BuildList(_, _)
BuildList(body, fv) ==
  IF body = <<>> THEN [items |-> <<>>, fv |-> fv]
  ELSE LET b    == BuildIn(Head(body), fv)
           rest == BuildList(Tail(body), b.fv)
       IN  [items |-> <<[e |-> b.e, ref |-> b.ref]>> \o rest.items, fv |-> rest.fv]

\* the term relabels a fact variable
RECURSIVE Relabels(_)
Relabels(t) ==
  \/ t.k = "named" /\ (t.args[1].k = "fact" \/ (t.args[1].k = "named" /\ Relabels(t.args[1])))
  \/ \E i \in 1..Len(t.args) : Relabels(t.args[i])

(***************************************************************************)
(* engine.evaluate_person                                                  *)
(***************************************************************************)
\* 1.0 in the unit of round(score, 4)
ScoreScale == 10000

\* num / den rounded to the nearest integer, a half to the even one, for
\* 0 <= num and 0 < den
RoundHalfEven(num, den) ==
  LET q == num \div den
      r == num % den
  IN  IF 2 * r < den THEN q
      ELSE IF 2 * r > den THEN q + 1
      ELSE IF q % 2 = 0 THEN q ELSE q + 1

\* round(num / den, 4) in ten-thousandths.  Python rounds the float quotient
\* half-to-even; the quotient lies exactly half way only when den is a
\* multiple of 32.
Round4(num, den) == RoundHalfEven(num * ScoreScale, den)

\* label = getattr(c, "_repr", None) or repr(c) or f"constraint[{i}]"
\* (i counts from 0 in the code, from 1 here)
ConstraintLabel(c, i) == IF c.repr # "" THEN c.repr ELSE "constraint[" \o ToString(i - 1) \o "]"

\* the antecedent check of the loop body: None unless c has _antecedent
AntecedentFired(c) ==
  IF Len(c.ant) = 0 THEN "None"
  ELSE IF SolverCheck(c.ant[1]) THEN "True" ELSE "False"

\* z3_compat.Z3_REAL: whether the import of z3 succeeded.  The solver that
\* was found at import is part of the environment of a run; without one
\* (as in every run but those of SpecSearch) the shim is used.
SolverKinds == {"unavailable", "raises", "unsat", "unchanged", "found"}

Z3_REAL == run.cmd = "search" /\ run.z3 # "unavailable"

\* what a call yields: a value, or the exception that escapes it
Yield(v) == [exc |-> "", v |-> v]

Throw(exc) == [exc |-> exc, v |-> "None"]

\* the body of the try block of _target_assignment: the search for values
\* of the observed variables that satisfy the constraint
TargetSearch(c) ==
  CASE run.z3 = "raises"    -> Throw("Z3Exception")
    [] run.z3 = "unsat"     -> Yield("None")
    [] run.z3 = "unchanged" -> Yield("None")
    [] run.z3 = "found"     -> Yield("hint")

\* mutant of _target_assignment: what the search raises is not caught
_target_assignment_Uncaught(c) ==
  IF ~Z3_REAL THEN Yield("None") ELSE TargetSearch(c)

\* _target_assignment: None without the real solver, and None for whatever
\* the search raises
_target_assignment(c) ==
  IF ~Z3_REAL THEN Yield("None")
  ELSE IF TargetSearch(c).exc # "" THEN Yield("None")
  ELSE TargetSearch(c)

\* target = None; if not ok and Z3_REAL: target = _target_assignment(..)
Target(c) == IF Z3_REAL /\ ~SolverCheck(c) THEN _target_assignment(c) ELSE Yield("None")

\* one entry of constraint_results
ConstraintResult(c, i) ==
  [label |-> ConstraintLabel(c, i), expr |-> c.repr, passed |-> SolverCheck(c),
   antecedent_fired |-> AntecedentFired(c), target |-> Target(c).v]

MkResult(name, satisfied, score, hasConstraints, constraints, violations, error) ==
  [person |-> name, satisfied |-> satisfied, score |-> score, hasConstraints |-> hasConstraints,
   constraints |-> constraints, violations |-> violations, error |-> error]

\* the result returned from the except AttributeError branch
ErrorResult(p) ==
  MkResult(p.name, FALSE, 0, FALSE, <<>>, <<"AttributeError in constraints(): " \o p.msg>>, <<p.msg>>)

\* mutant of EmptyResult: an empty list is scored like a list with no pass
EmptyResult_Failed(p) == MkResult(p.name, FALSE, 0, TRUE, <<>>, <<>>, <<>>)

\* the result returned when constraints() is empty
EmptyResult(p) == MkResult(p.name, TRUE, ScoreScale, TRUE, <<>>, <<>>, <<>>)

\* mutant of ScoreOf: the quotient is truncated instead of rounded
ScoreOf_Truncated(passed, total) == (passed * ScoreScale) \div total

\* score = passed / len(constraints), rounded by round(score, 4)
ScoreOf(passed, total) == Round4(passed, total)

\* the loop over the constraints and the final result
JudgedResult(p, cs) ==
  LET results    == [i \in 1..Len(cs) |-> ConstraintResult(cs[i], i)]
      passed     == Cardinality({i \in 1..Len(cs) : results[i].passed})
      failed     == SelectSeq(results, LAMBDA r : ~r.passed)
      violations == [i \in 1..Len(failed) |-> failed[i].label]
  IN  MkResult(p.name, Len(violations) = 0, ScoreOf(passed, Len(cs)), TRUE, results, violations, <<>>)

Returned(r) == [status |-> "return", exc |-> "", result |-> r]

NoResult == MkResult("", FALSE, 0, FALSE, <<>>, <<>>, <<>>)

Raised(exc) == [status |-> "raise", exc |-> exc, result |-> NoResult]

\* the body of the persona relabels no fact variable: the table stays as
\* _make_fact_vars built it
TableUntouched(p) == \A i \in 1..Len(p.body) : ~Relabels(p.body[i])

\* the list and the table after person.constraints(namespace)
ConstraintsIn(p, fv) ==
  IF TableUntouched(p) THEN [cs |-> [i \in 1..Len(p.body) |-> Build(p.body[i], fv)], fv |-> fv]
  ELSE Let(BuildList(p.body, fv), LAMBDA l :
         [cs |-> [i \in 1..Len(l.items) |-> IF l.items[i].ref = "" THEN l.items[i].e
                                            ELSE l.fv.vars[l.items[i].ref].e],
          fv |-> l.fv])

\* person.constraints(namespace): the built list, unless the body raises
Constraints(p, fv) == ConstraintsIn(p, fv).cs

\* the table of fact variables an evaluation leaves behind: _assignments is
\* popped once the list is known not to be empty
TableAfter(p, fs) ==
  LET fv == _make_fact_vars(fs) IN
  IF p.raises # "" THEN fv
  ELSE LET c == ConstraintsIn(p, fv) IN
       IF Len(c.cs) = 0 THEN c.fv ELSE [c.fv EXCEPT !.hasAssignments = FALSE]

\* evaluate_person(person, facts): a result, or the exception that escapes
evaluate_person(p, fs) ==
  LET fv == _make_fact_vars(fs) IN
  IF p.raises = "AttributeError" THEN Returned(ErrorResult(p))
  ELSE IF p.raises # "" THEN Raised(p.raises)
  ELSE LET cs == Constraints(p, fv) IN
       IF Len(cs) = 0 THEN Returned(EmptyResult(p))
       ELSE IF Z3_REAL /\ \E i \in 1..Len(cs) : Target(cs[i]).exc # ""
         THEN Raised(Target(cs[CHOOSE i \in 1..Len(cs) : Target(cs[i]).exc # ""]).exc)
       ELSE Returned(JudgedResult(p, cs))

(***************************************************************************)
(* usersim.schema and the judgement entry points of engine.py.  A function *)
(* that can raise yields a record whose exc names the exception class that *)
(* escapes it ("" if it returns).                                          *)
(***************************************************************************)
METRICS_SCHEMA == "usersim.metrics.v1"

PERCEPTIONS_SCHEMA == "usersim.perceptions.v1"

RESULTS_SCHEMA == "usersim.results.v1"

MATRIX_SCHEMA == "usersim.matrix.v1"

Max(a, b) == IF a > b THEN a ELSE b

\* d[k] = v on a dict
SetKey(d, k, v) == (k :> v) @@ d

\* a metrics document: its schema tag and whether it has a "metrics" object
MetricsDoc(schema, hasMetrics) == [schema |-> schema, hasMetrics |-> hasMetrics]

\* a perceptions document; path "" stands for a document without that key
PerceptionsDoc(schema, hasFacts, hasPerson, who, path, fs) ==
  [schema |-> schema, hasFacts |-> hasFacts, hasPerson |-> hasPerson, person |-> who,
   path |-> path, facts |-> fs]

validate_metrics(doc) ==
  IF doc.schema # METRICS_SCHEMA \/ ~doc.hasMetrics THEN "ValueError" ELSE ""

\* mutant of validate_perceptions: only the schema tag is checked
validate_perceptions_TagOnly(doc) ==
  IF doc.schema # PERCEPTIONS_SCHEMA THEN "ValueError" ELSE ""

validate_perceptions(doc) ==
  IF doc.schema # PERCEPTIONS_SCHEMA \/ ~doc.hasFacts \/ ~doc.hasPerson THEN "ValueError" ELSE ""

\* the personas a user file list defines, all of them or the one named
_load_persons(users, hasTarget, target) ==
  LET Wanted(p) == ~hasTarget \/ p.name = target IN SelectSeq(users, Wanted)

Summary(total, satisfied, score) == [total |-> total, satisfied |-> satisfied, score |-> score]

\* a results or matrix document; path "" stands for a document without it
ResultsDoc(schema, path, results, summary) ==
  [schema |-> schema, path |-> path, results |-> results, summary |-> summary]

NoDoc == ResultsDoc("", "", <<>>, Summary(0, 0, 0))

SatisfiedCount(results) == Cardinality({i \in 1..Len(results) : results[i].satisfied})

RECURSIVE SumScores(_)
SumScores(results) ==
  IF results = <<>> THEN 0 ELSE Head(results).score + SumScores(Tail(results))

\* round(sum(r["score"]) / max(len, 1), 4).  A mean that lies exactly half
\* way is rounded as the nearest double falls; the personas judged through
\* _evaluate score 0, 1/2 or 1, so no mean of theirs lies half way.
MeanScore(results) == RoundHalfEven(SumScores(results), Max(Len(results), 1))

\* evaluate_person over a list of personas in order, each result tagged
\* with the path, up to the first evaluation that raises
RECURSIVE EvaluateAll(_, _, _)
EvaluateAll(persons, fs, path) ==
  IF persons = <<>> THEN [exc |-> "", msg |-> "", results |-> <<>>]
  ELSE Let(evaluate_person(Head(persons), fs), LAMBDA o :
         IF o.status = "raise" THEN [exc |-> o.exc, msg |-> Head(persons).msg, results |-> <<>>]
         ELSE Let(EvaluateAll(Tail(persons), fs, path), LAMBDA rest :
                IF rest.exc # "" THEN rest
                ELSE [exc |-> "", msg |-> "",
                      results |-> <<SetKey(o.result, "path", path)>> \o rest.results]))

\* the summary of _evaluate
EvaluateSummary(results) ==
  Summary(Len(results), SatisfiedCount(results), MeanScore(results))

_evaluate(doc, users) ==
  LET path == IF doc.path = "" THEN "unknown" ELSE doc.path
      persons == _load_persons(users, doc.hasPerson /\ doc.person # "all", doc.person)
  IN  Let(EvaluateAll(persons, doc.facts, path), LAMBDA ev :
        IF ev.exc # "" THEN [exc |-> ev.exc, msg |-> ev.msg, doc |-> NoDoc]
        ELSE [exc |-> "", msg |-> "",
              doc |-> ResultsDoc(RESULTS_SCHEMA, path, ev.results, EvaluateSummary(ev.results))])

\* what a call leaves behind: the exception that escaped it and the
\* documents _write_output wrote, in order
Ran(exc, written) == [exc |-> exc, written |-> written]

run_judgement(doc, users) ==
  IF validate_perceptions(doc) # "" THEN Ran(validate_perceptions(doc), <<>>)
  ELSE Let(_evaluate(doc, users), LAMBDA ev :
         IF ev.exc # "" THEN Ran(ev.exc, <<>>) ELSE Ran("", <<ev.doc>>))

\* the results of the files of a perceptions directory, in sorted order; a
\* file is its stem and the document it holds
RECURSIVE MatrixResults(_, _)
MatrixResults(files, users) ==
  IF files = <<>> THEN [exc |-> "", results |-> <<>>]
  ELSE LET f == Head(files)
           fs == IF f.doc.hasFacts THEN f.doc.facts ELSE EmptyFacts
           path == IF f.doc.path = "" THEN f.stem ELSE f.doc.path
       IN  Let(EvaluateAll(_load_persons(users, FALSE, ""), fs, path), LAMBDA ev :
             IF ev.exc # "" THEN [exc |-> ev.exc, results |-> <<>>]
             ELSE Let(MatrixResults(Tail(files), users), LAMBDA rest :
                    IF rest.exc # "" THEN rest
                    ELSE [exc |-> "", results |-> ev.results \o rest.results]))

\* the summary of a matrix: score is round(satisfied / max(len, 1), 4)
MatrixSummary(results) ==
  Let(SatisfiedCount(results), LAMBDA satisfied :
    Summary(Len(results), satisfied, Round4(satisfied, Max(Len(results), 1))))

run_matrix(files, users) ==
  Let(MatrixResults(files, users), LAMBDA m :
    IF m.exc # "" THEN Ran(m.exc, <<>>)
    ELSE Ran("", <<ResultsDoc(MATRIX_SCHEMA, "", m.results, MatrixSummary(m.results))>>))

(***************************************************************************)
(* usersim.runner.run_from_config.  A path of the config is modelled by    *)
(* what its external stages do: how the instrumentation and perceptions    *)
(* commands end and the facts the perceptions command reports.             *)
(***************************************************************************)
Scn(name, tags, instr, perc, fs) ==
  [name |-> name, tags |-> tags, instr |-> instr, perc |-> perc, facts |-> fs]

\* _run_command raises RuntimeError on a non-zero exit and on output that is
\* not JSON
_run_command(kind) == IF kind \in {"nonzero", "invalid_json"} THEN "RuntimeError" ELSE ""

\* the document the instrumentation command prints
InstrumentationDoc(sc) ==
  MetricsDoc(IF sc.instr = "bad_schema" THEN "" ELSE METRICS_SCHEMA, sc.instr # "no_metrics")

\* a perceptions script called in-process may raise anything: a KeyError here
_run_perceptions_cmd(kind) == IF kind = "raises" THEN "KeyError" ELSE _run_command(kind)

\* the document the perceptions stage yields
StagePerceptionsDoc(sc) ==
  PerceptionsDoc(IF sc.perc = "bad_schema" THEN "" ELSE PERCEPTIONS_SCHEMA,
                 sc.perc # "no_facts", sc.perc # "no_person", "all", sc.name, sc.facts)

\* the body of the try block of one path: steps 1 to 3, up to the first raise
TryPath(sc, users) ==
  IF _run_command(sc.instr) # ""
    THEN [exc |-> _run_command(sc.instr), msg |-> "instrumentation command failed", results |-> <<>>]
  ELSE IF validate_metrics(InstrumentationDoc(sc)) # ""
    THEN [exc |-> validate_metrics(InstrumentationDoc(sc)), msg |-> "malformed metrics", results |-> <<>>]
  ELSE IF _run_perceptions_cmd(sc.perc) # ""
    THEN [exc |-> _run_perceptions_cmd(sc.perc), msg |-> "perceptions command failed", results |-> <<>>]
  ELSE IF validate_perceptions(StagePerceptionsDoc(sc)) # ""
    THEN [exc |-> validate_perceptions(StagePerceptionsDoc(sc)), msg |-> "malformed perceptions", results |-> <<>>]
  ELSE Let(_evaluate(StagePerceptionsDoc(sc), users), LAMBDA ev :
         [exc |-> ev.exc, msg |-> ev.msg, results |-> ev.doc.results])

\* the classes `except (RuntimeError, ValueError)` catches
CaughtByRunner == {"RuntimeError", "ValueError", "NotImplementedError"}

\* an element of all_results: the path and its result dict
PathEntry(path, results, error) == [path |-> path, results |-> results, error |-> error]

\* one iteration of the loop over paths: the entry appended to all_results,
\* or the exception the except clause does not catch
RunPath(sc, users) ==
  Let(TryPath(sc, users), LAMBDA t :
    IF t.exc = "" THEN [exc |-> "", entry |-> PathEntry(sc.name, t.results, "")]
    ELSE IF t.exc \in CaughtByRunner THEN [exc |-> "", entry |-> PathEntry(sc.name, <<>>, t.msg)]
    ELSE [exc |-> t.exc, entry |-> PathEntry(sc.name, <<>>, "")])

_OPT_IN_TAGS == {"expensive"}

_should_run(s_tags, tag_set) ==
  LET opt_in == s_tags \cap _OPT_IN_TAGS
  IN  IF opt_in # {} THEN opt_in \cap tag_set # {}
      ELSE IF tag_set # {} THEN s_tags = {} \/ s_tags \cap tag_set # {}
      ELSE TRUE

\* cfg["_scenario_tags"].get(name, []): the dict is keyed by path name, so a
\* name holds the tags of the last entry of `paths:` that bears it
_scenario_tags(cfg, name) ==
  LET at == {i \in 1..Len(cfg.scenarios) : cfg.scenarios[i].name = name}
  IN  IF at = {} THEN {} ELSE cfg.scenarios[CHOOSE i \in at : \A j \in at : j <= i].tags

\* the paths to run: the override alone, or the config's paths the tag
\* filter lets through
PathsToRun(cfg, override, tags) ==
  LET IsOverride(sc) == sc.name = override
      ShouldRun(sc) == _should_run(_scenario_tags(cfg, sc.name), tags)
      named_so == SelectSeq(cfg.scenarios, IsOverride)
  IN  IF override # "" THEN (IF named_so = <<>> THEN <<>> ELSE <<Head(named_so)>>)
      ELSE SelectSeq(cfg.scenarios, ShouldRun)

\* the loop over paths: all_results, up to the exception that ends it
RECURSIVE RunPaths(_, _)
RunPaths(paths, users) ==
  IF paths = <<>> THEN [exc |-> "", entries |-> <<>>]
  ELSE Let(RunPath(Head(paths), users), LAMBDA r :
         IF r.exc # "" THEN [exc |-> r.exc, entries |-> <<>>]
         ELSE Let(RunPaths(Tail(paths), users), LAMBDA rest :
                [exc |-> rest.exc, entries |-> <<r.entry>> \o rest.entries]))

\* the results of an entry, their path set to the entry's
WithPath(e) == [i \in 1..Len(e.results) |-> SetKey(e.results[i], "path", e.path)]

\* flat: every result of every entry
RECURSIVE Flatten(_)
Flatten(entries) ==
  IF entries = <<>> THEN <<>> ELSE WithPath(Head(entries)) \o Flatten(Tail(entries))

\* the characters of the regular expressions of runner.py and audit.py
LowerChars ==
  {"a", "b", "c", "d", "e", "f", "g", "h", "i", "j", "k", "l", "m",
   "n", "o", "p", "q", "r", "s", "t", "u", "v", "w", "x", "y", "z"}

UpperChars ==
  {"A", "B", "C", "D", "E", "F", "G", "H", "I", "J", "K", "L", "M",
   "N", "O", "P", "Q", "R", "S", "T", "U", "V", "W", "X", "Y", "Z"}

DigitChars == {"0", "1", "2", "3", "4", "5", "6", "7", "8", "9"}

\* the characters \w matches, between which there is no \b
WordChars == LowerChars \cup UpperChars \cup DigitChars \cup {"_"}

CharAt(s, i) == SubSeq(s, i, i)

\* the index after the run of word characters that starts at i
RECURSIVE WordEnd(_, _)
WordEnd(s, i) == IF i <= Len(s) /\ CharAt(s, i) \in WordChars THEN WordEnd(s, i + 1) ELSE i

\* [a-z][a-z0-9_]* matches the whole of the word w
IsIdentifier(w) ==
  /\ CharAt(w, 1) \in LowerChars
  /\ \A i \in 2..Len(w) : CharAt(w, i) \in LowerChars \cup DigitChars \cup {"_"}

\* re.findall(r'\b([a-z][a-z0-9_]*)\b', s) from index i on, as a set: a
\* match starts and ends at a word boundary, so it is a whole word
RECURSIVE _VRE_findall(_, _)
_VRE_findall(s, i) ==
  IF i > Len(s) THEN {}
  ELSE IF CharAt(s, i) \notin WordChars THEN _VRE_findall(s, i + 1)
  ELSE Let(WordEnd(s, i), LAMBDA j :
         (IF IsIdentifier(SubSeq(s, i, j - 1)) THEN {SubSeq(s, i, j - 1)} ELSE {})
           \cup _VRE_findall(s, j))

_Z3K == {"If", "then", "And", "Or", "Not", "Implies", "True", "False", "true", "false", "and", "or", "not"}

Min(a, b) == IF a < b THEN a ELSE b

\* _eff(expr): 4 ** min(max(k, 1), 8) for the k names found in the text
_eff(expr) ==
  LET k == Cardinality({m \in _VRE_findall(expr, 1) : m \notin _Z3K /\ Len(m) > 2})
  IN  4 ^ Min(Max(k, 1), 8)

\* the dicts c of r.get("constraints", []) for every r of flat, in order
RECURSIVE AllConstraints(_)
AllConstraints(flat) ==
  IF flat = <<>> THEN <<>> ELSE Head(flat).constraints \o AllConstraints(Tail(flat))

\* sum(_eff(c.get("expr") or "") for c in cs)
RECURSIVE EffectiveTests(_)
EffectiveTests(cs) == IF cs = <<>> THEN 0 ELSE _eff(Head(cs).expr) + EffectiveTests(Tail(cs))

\* label = c.get("label") or c.get("expr") or "unnamed"
FreqLabel(c) == IF c.label # "" THEN c.label ELSE IF c.expr # "" THEN c.expr ELSE "unnamed"

\* freq[label] if the label is in freq, else the entry the loop inserts
FreqEntry(freq, l) == IF l \in DOMAIN freq THEN freq[l] ELSE [fired |-> 0, failed |-> 0, total |-> 0]

\* mutant of FreqStep: a constraint without antecedent counts as fired
FreqStep_NoneFires(freq, c) ==
  LET l == FreqLabel(c)
      e == FreqEntry(freq, l)
  IN  [k \in DOMAIN freq \cup {l} |->
         IF k # l THEN freq[k]
         ELSE [fired  |-> e.fired + (IF c.antecedent_fired # "False" THEN 1 ELSE 0),
               failed |-> e.failed + (IF ~c.passed THEN 1 ELSE 0),
               total  |-> e.total + 1]]

\* one pass of the loop body: total += 1, fired += 1 if antecedent_fired is
\* truthy (None is not), failed += 1 if the constraint did not pass
FreqStep(freq, c) ==
  LET l == FreqLabel(c)
      e == FreqEntry(freq, l)
  IN  [k \in DOMAIN freq \cup {l} |->
         IF k # l THEN freq[k]
         ELSE [fired  |-> e.fired + (IF c.antecedent_fired = "True" THEN 1 ELSE 0),
               failed |-> e.failed + (IF ~c.passed THEN 1 ELSE 0),
               total  |-> e.total + 1]]

\* the loop over the constraints of all results, from the table built so far
RECURSIVE FreqLoop(_, _)
FreqLoop(cs, freq) ==
  IF cs = <<>> THEN freq ELSE FreqLoop(Tail(cs), FreqStep(freq, Head(cs)))

\* freq after the loop
ConstraintFreq(cs) == FreqLoop(cs, [k \in {} |-> 0])

\* the summary of run_from_config: that of a matrix, the evaluation counts
\* and the frequency table
RunSummary(flat) ==
  Let(AllConstraints(flat), LAMBDA cs :
    [constraint_evals |-> Len(cs),
     effective_tests  |-> EffectiveTests(cs),
     constraint_freq  |-> ConstraintFreq(cs)] @@ MatrixSummary(flat))

\* the matrix document assembled from flat
MatrixDoc(flat) == ResultsDoc(MATRIX_SCHEMA, "", flat, RunSummary(flat))

\* what run_from_config leaves behind: the exception that escaped it, the
\* documents written and the entries of all_results
run_from_config(cfg, override, tags) ==
  Let(RunPaths(PathsToRun(cfg, override, tags), cfg.users), LAMBDA loop :
    IF loop.exc # "" THEN [exc |-> loop.exc, written |-> <<>>, entries |-> loop.entries]
    ELSE [exc |-> "",
          written |-> <<Let(Flatten(loop.entries), LAMBDA flat : MatrixDoc(flat))>>,
          entries |-> loop.entries])

(***************************************************************************)
(* usersim.cli: cmd_run and cmd_judge.  A command ends by returning an     *)
(* exit code or with an exception escaping it, on which the interpreter    *)
(* exits with status 1.                                                    *)
(***************************************************************************)
Exit(code, written, entries) ==
  [returned |-> TRUE, code |-> code, exc |-> "", written |-> written, entries |-> entries]

Crash(exc, written, entries) ==
  [returned |-> FALSE, code |-> 1, exc |-> exc, written |-> written, entries |-> entries]

\* the grid of a matrix document reads r["scenario"], a key no result has
_print_summary(doc) ==
  IF doc.schema = MATRIX_SCHEMA /\ doc.results # <<>> THEN "KeyError" ELSE ""

\* the narrative reads r["scenario"] of every unsatisfied result
_print_narrative(doc) ==
  IF \E i \in 1..Len(doc.results) : ~doc.results[i].satisfied THEN "KeyError" ELSE ""

\* 0 if results["summary"]["score"] == 1.0 else 2
ExitCode(doc) == IF doc.summary.score = ScoreScale THEN 0 ELSE 2

\* the exceptions cmd_run turns into exit code 1
CaughtByCmdRun == {"FileNotFoundError", "ValueError", "RuntimeError", "NotImplementedError"}

\* load_config: FileNotFoundError without a config file, ValueError for one
\* that lacks a required key
load_config(config) ==
  CASE config = "missing" -> "FileNotFoundError"
    [] config = "invalid" -> "ValueError"
    [] OTHER -> ""

\* what cmd_run does with the outcome r of run_from_config
AfterRun(args, r) ==
  IF r.exc \in CaughtByCmdRun THEN Exit(1, r.written, r.entries)
  ELSE IF r.exc # "" THEN Crash(r.exc, r.written, r.entries)
  ELSE IF ~args.quiet /\ args.matrix /\ _print_summary(r.written[1]) # ""
    THEN Crash(_print_summary(r.written[1]), r.written, r.entries)
  ELSE IF ~args.quiet /\ _print_narrative(r.written[1]) # ""
    THEN Crash(_print_narrative(r.written[1]), r.written, r.entries)
  ELSE Exit(ExitCode(r.written[1]), r.written, r.entries)

cmd_run(args) ==
  IF load_config(args.config) # "" THEN Exit(1, <<>>, <<>>)
  ELSE Let(run_from_config(args.cfg, args.scenario, {}), LAMBDA r : AfterRun(args, r))

\* what cmd_judge does with the outcome r of run_matrix or run_judgement
AfterJudge(args, r) ==
  IF r.exc # "" THEN Crash(r.exc, r.written, <<>>)
  ELSE IF ~args.quiet /\ _print_summary(r.written[1]) # ""
    THEN Crash(_print_summary(r.written[1]), r.written, <<>>)
  ELSE Exit(ExitCode(r.written[1]), r.written, <<>>)

cmd_judge(args) ==
  IF args.perceptions_dir
    THEN Let(run_matrix(args.files, args.users), LAMBDA r : AfterJudge(args, r))
  ELSE Let(run_judgement(args.files[1].doc, args.users), LAMBDA r : AfterJudge(args, r))

(***************************************************************************)
(* Personas.  raises names the exception class constraints() raises ("" if *)
(* it returns); msg is the exception's text.                               *)
(***************************************************************************)
Persona(name, raises, msg, body) == [name |-> name, raises |-> raises, msg |-> msg, body |-> body]

Ge0(n) == TBin(">=", TFact(n), TInt(0))

\* the names a gate may read: facts, a Bool alias, a sanitised name and a
\* name no scenario ever measures
GateNames == {"x", "x_bool", "is_up", "z"}

Consequents == {TFact("y"), TBool(FALSE), TBin("<=", TFact("x"), TInt(1)), TNot(TFact("y")), Ge0("z")}

\* personas whose only constraint is Implies(fact >= 0, C), labelled or not
GatedPersons == {Persona("gated", "", "", <<TImplies(Ge0(n), c)>>) : n \in GateNames, c \in Consequents}
                \cup {Persona("gated_named", "", "", <<TNamed("gate/check", TImplies(Ge0(n), c))>>) : n \in GateNames, c \in Consequents}

EmptyPerson == Persona("empty", "", "", <<>>)

\* TestEvaluatePerson.test_partial_score
BarePerson == Persona("bare", "", "", <<TFact("x"), TFact("y")>>)

ThirdsPerson == Persona("thirds", "", "", <<TFact("x"), TFact("y"), TFact("is_up")>>)

MixedPerson ==
  Persona("mixed", "", "",
          <<TImplies(TFact("y"), TBin(">=", TFact("x"), TInt(1))),
            TNamed("mixed/x-small", TImplies(Ge0("x"), TBin("<=", TBin("*", TFact("x"), TInt(2)), TInt(2)))),
            TNamed("", TOr(<<TFact("is_up"), TBin("==", TFact("x"), TFact("y"))>>)),
            TAnd(<<TImplies(TFact("y"), TFact("x")), TNot(TBin("<", TFact("x"), TInt(0)))>>),
            TNamed("mixed/not-an-implication", TBin("!=", TBin("+", TFact("x"), TFact("y")), TBin("-", TFact("z"), TInt(1))))>>)

RaisingPersons == {Persona("raises", exc, "boom", <<>>) : exc \in {"AttributeError", "ValueError", "RuntimeError", "TypeError"}}

\* TestEvaluatePerson.test_missing_fact_returns_error: the only constraint is
\* a bare fact reference, to a core fact or to a name no scenario measures
LonePersons == {Persona("lone", "", "", <<TFact(n)>>) : n \in {"x", "z"}}

Persons == {EmptyPerson, BarePerson, ThirdsPerson, MixedPerson} \cup GatedPersons \cup RaisingPersons \cup LonePersons

\* a persona with more constraints than twice the score's precision:
\* [P.x] * (BulkLen - 1) + [Not(P.x)]
BulkLen == 2 * ScoreScale + 1

BulkPerson ==
  Persona("bulk", "", "", [i \in 1..BulkLen |-> IF i < BulkLen THEN TFact("x") ELSE TNot(TFact("x"))])

\* the facts maps the bulk persona is judged on: x absent, 0 or 1
BulkFactMaps == {EmptyFacts} \cup {[EmptyFacts EXCEPT !["x"] = FNum(i)] : i \in 0..1}

(***************************************************************************)
(* usersim.constraints: the library's constraint groups, as the lists of   *)
(* constructor terms their functions return for the given thresholds.      *)
(***************************************************************************)
\* usersim.constraints.reliability.error_rate
error_rate(max_pct) ==
  << TNamed("reliability/error-rate-bounded", TImplies(TBin(">=", TFact("request_total"), TInt(1)), TBin("<=", TBin("*", TFact("error_total"), TInt(100)), TBin("*", TFact("request_total"), TInt(max_pct))))),
     TNamed("reliability/errors-never-exceed-requests", TImplies(TBin(">=", TFact("request_total"), TInt(1)), TBin("<=", TFact("error_total"), TFact("request_total")))),
     TNamed("reliability/no-errors-on-zero-requests", TImplies(TBin("==", TFact("request_total"), TInt(0)), TBin("==", TFact("error_total"), TInt(0)))),
     TNamed("reliability/requests-positive-when-errors-observed", TImplies(TBin(">=", TFact("error_total"), TInt(1)), TBin(">=", TFact("request_total"), TInt(1)))) >>

\* usersim.constraints.reliability.latency
latency(p50_ms, p95_ms, p99_ms) ==
  << TNamed("reliability/p50-under-threshold", TImplies(TBin(">=", TFact("p50_ms"), TInt(0)), TBin(">=", TInt(p50_ms), TFact("p50_ms")))),
     TNamed("reliability/p95-under-threshold", TImplies(TBin(">=", TFact("p95_ms"), TInt(0)), TBin(">=", TInt(p95_ms), TFact("p95_ms")))),
     TNamed("reliability/p99-under-threshold", TImplies(TBin(">=", TFact("p99_ms"), TInt(0)), TBin(">=", TInt(p99_ms), TFact("p99_ms")))),
     TNamed("reliability/p50-lte-p95", TImplies(TAnd(<<TBin(">=", TFact("p50_ms"), TInt(0)), TBin(">=", TFact("p95_ms"), TInt(0))>>), TBin("<=", TFact("p50_ms"), TFact("p95_ms")))),
     TNamed("reliability/p95-lte-p99", TImplies(TAnd(<<TBin(">=", TFact("p95_ms"), TInt(0)), TBin(">=", TFact("p99_ms"), TInt(0))>>), TBin("<=", TFact("p95_ms"), TFact("p99_ms")))),
     TNamed("reliability/p50-lte-p99", TImplies(TAnd(<<TBin(">=", TFact("p50_ms"), TInt(0)), TBin(">=", TFact("p99_ms"), TInt(0))>>), TBin("<=", TFact("p50_ms"), TFact("p99_ms")))) >>

\* usersim.constraints.reliability.availability
availability(min_uptime_pct) ==
  << TNamed("reliability/uptime-above-floor", TImplies(TBin(">=", TFact("uptime_pct"), TInt(0)), TBin("<=", TInt(min_uptime_pct), TFact("uptime_pct")))),
     TNamed("reliability/uptime-is-valid-percentage", TImplies(TBin(">=", TFact("uptime_pct"), TInt(0)), TAnd(<<TBin(">=", TFact("uptime_pct"), TInt(0)), TBin("<=", TFact("uptime_pct"), TInt(100))>>))),
     TNamed("reliability/no-long-error-streaks", TImplies(TBin(">=", TFact("consecutive_errors"), TInt(0)), TBin("<=", TFact("consecutive_errors"), TInt(5)))),
     TNamed("reliability/high-uptime-limits-streak", TImplies(TAnd(<<TBin("<=", TInt(min_uptime_pct), TFact("uptime_pct")), TBin(">=", TFact("consecutive_errors"), TInt(0))>>), TBin("<=", TFact("consecutive_errors"), TInt(3)))) >>

\* usersim.constraints.throughput.throughput_floor
throughput_floor(min_items_per_second) ==
  << TNamed("throughput/floor-rate-met", TImplies(TAnd(<<TBin(">=", TFact("items_processed"), TInt(1)), TBin(">=", TFact("elapsed_ms"), TInt(1))>>), TBin(">=", TBin("*", TFact("items_processed"), TInt(1000)), TBin("*", TFact("elapsed_ms"), TInt(min_items_per_second))))),
     TNamed("throughput/processed-never-exceeds-total", TImplies(TBin(">=", TFact("items_total"), TInt(1)), TBin("<=", TFact("items_processed"), TFact("items_total")))),
     TNamed("throughput/no-dropped-without-submissions", TImplies(TBin("==", TFact("items_total"), TInt(0)), TBin("==", TFact("dropped_items"), TInt(0)))),
     TNamed("throughput/processed-plus-dropped-lte-total", TImplies(TAnd(<<TBin(">=", TFact("items_total"), TInt(1)), TBin(">=", TFact("dropped_items"), TInt(0))>>), TBin("<=", TBin("+", TFact("items_processed"), TFact("dropped_items")), TFact("items_total")))),
     TNamed("throughput/elapsed-positive-when-work-done", TImplies(TBin(">=", TFact("items_processed"), TInt(1)), TBin(">=", TFact("elapsed_ms"), TInt(1)))) >>

\* usersim.constraints.throughput.queue_depth
queue_depth(max_depth, max_per_worker) ==
  << TNamed("throughput/queue-under-absolute-ceiling", TImplies(TBin(">=", TFact("queue_depth"), TInt(0)), TBin(">=", TInt(max_depth), TFact("queue_depth")))),
     TNamed("throughput/queue-scales-with-workers", TImplies(TAnd(<<TBin(">=", TFact("queue_depth"), TInt(0)), TBin(">=", TFact("worker_count"), TInt(1))>>), TBin("<=", TFact("queue_depth"), TBin("*", TFact("worker_count"), TInt(max_per_worker))))),
     TNamed("throughput/workers-positive", TImplies(TBin(">=", TFact("worker_count"), TInt(0)), TBin(">=", TFact("worker_count"), TInt(1)))),
     TNamed("throughput/no-drops-under-half-capacity", TImplies(TAnd(<<TBin(">=", TFact("queue_depth"), TInt(0)), TBin(">=", TFact("worker_count"), TInt(1)), TBin("<=", TBin("*", TFact("queue_depth"), TInt(2)), TBin("*", TFact("worker_count"), TInt(max_per_worker)))>>), TBin("==", TFact("dropped_items"), TInt(0)))) >>

\* usersim.constraints.search.result_count
result_count(min_results, max_results) ==
  << TNamed("search/non-empty-result-set", TImplies(TBin(">=", TFact("corpus_size"), TInt(1)), TBin("<=", TInt(min_results), TFact("results_returned")))),
     TNamed("search/results-never-exceed-top-k", TImplies(TAnd(<<TBin(">=", TFact("top_k"), TInt(1)), TBin(">=", TFact("results_returned"), TInt(0))>>), TBin("<=", TFact("results_returned"), TFact("top_k")))),
     TNamed("search/results-never-exceed-corpus", TImplies(TBin(">=", TFact("corpus_size"), TInt(1)), TBin("<=", TFact("results_returned"), TFact("corpus_size")))),
     TNamed("search/results-under-ceiling", TImplies(TBin(">=", TFact("results_returned"), TInt(0)), TBin(">=", TInt(max_results), TFact("results_returned")))),
     TNamed("search/relevant-never-exceed-returned", TImplies(TBin(">=", TFact("results_returned"), TInt(0)), TBin("<=", TFact("results_relevant"), TFact("results_returned")))) >>

\* usersim.constraints.search.precision
precision(min_pct) ==
  << TNamed("search/precision-above-floor", TImplies(TBin(">=", TFact("results_returned"), TInt(1)), TBin(">=", TBin("*", TFact("results_relevant"), TInt(100)), TBin("*", TFact("results_returned"), TInt(min_pct))))),
     TNamed("search/relevant-non-negative", TImplies(TBin(">=", TFact("results_returned"), TInt(0)), TBin(">=", TFact("results_relevant"), TInt(0)))),
     TNamed("search/perfect-precision-means-all-relevant", TImplies(TAnd(<<TBin(">=", TFact("results_relevant"), TInt(1)), TBin("==", TFact("results_relevant"), TFact("results_returned"))>>), TBin(">=", TBin("*", TFact("results_relevant"), TInt(100)), TBin("*", TFact("results_returned"), TInt(100))))) >>

\* usersim.constraints.search.recall
recall(min_pct) ==
  << TNamed("search/recall-above-floor", TImplies(TAnd(<<TBin(">=", TFact("total_relevant"), TInt(1)), TBin(">=", TFact("results_relevant"), TInt(0))>>), TBin(">=", TBin("*", TFact("results_relevant"), TInt(100)), TBin("*", TFact("total_relevant"), TInt(min_pct))))),
     TNamed("search/total-relevant-non-negative", TImplies(TBin(">=", TFact("corpus_size"), TInt(1)), TBin(">=", TFact("total_relevant"), TInt(0)))),
     TNamed("search/total-relevant-lte-corpus", TImplies(TAnd(<<TBin(">=", TFact("corpus_size"), TInt(1)), TBin(">=", TFact("total_relevant"), TInt(0))>>), TBin("<=", TFact("total_relevant"), TFact("corpus_size")))),
     TNamed("search/precision-recall-f1-floor", TImplies(TAnd(<<TBin(">=", TFact("results_returned"), TInt(1)), TBin(">=", TFact("total_relevant"), TInt(1)), TBin(">=", TBin("*", TFact("results_relevant"), TInt(100)), TBin("*", TFact("results_returned"), TInt(min_pct))), TBin(">=", TBin("*", TFact("results_relevant"), TInt(100)), TBin("*", TFact("total_relevant"), TInt(min_pct)))>>), TBin(">=", TBin("*", TBin("*", TFact("results_relevant"), TInt(100)), TInt(2)), TBin("+", TBin("*", TFact("results_returned"), TInt(min_pct)), TBin("*", TFact("total_relevant"), TInt(min_pct)))))) >>

\* usersim.constraints.retention.session_depth
session_depth(min_p50, min_p90, max_bounce_pct) ==
  << TNamed("retention/median-depth-above-floor", TImplies(TBin(">=", TFact("depth_p50"), TInt(0)), TBin("<=", TInt(min_p50), TFact("depth_p50")))),
     TNamed("retention/p90-depth-above-floor", TImplies(TBin(">=", TFact("depth_p90"), TInt(0)), TBin("<=", TInt(min_p90), TFact("depth_p90")))),
     TNamed("retention/p50-lte-p90", TImplies(TAnd(<<TBin(">=", TFact("depth_p50"), TInt(0)), TBin(">=", TFact("depth_p90"), TInt(0))>>), TBin("<=", TFact("depth_p50"), TFact("depth_p90")))),
     TNamed("retention/bounce-rate-under-ceiling", TImplies(TAnd(<<TBin(">=", TFact("sessions_total"), TInt(1)), TBin(">=", TFact("bounce_count"), TInt(0))>>), TBin("<=", TBin("*", TFact("bounce_count"), TInt(100)), TBin("*", TFact("sessions_total"), TInt(max_bounce_pct))))),
     TNamed("retention/bounce-never-exceeds-sessions", TImplies(TBin(">=", TFact("sessions_total"), TInt(0)), TBin("<=", TFact("bounce_count"), TFact("sessions_total")))),
     TNamed("retention/task-completion-is-percentage", TImplies(TBin(">=", TFact("task_completion_pct"), TInt(0)), TAnd(<<TBin(">=", TFact("task_completion_pct"), TInt(0)), TBin("<=", TFact("task_completion_pct"), TInt(100))>>))) >>

\* usersim.constraints.retention.return_rate
return_rate(min_return_pct) ==
  << TNamed("retention/return-rate-above-floor", TImplies(TBin(">=", TFact("sessions_total"), TInt(1)), TBin(">=", TBin("*", TFact("sessions_returned"), TInt(100)), TBin("*", TFact("sessions_total"), TInt(min_return_pct))))),
     TNamed("retention/returned-never-exceeds-total", TImplies(TBin(">=", TFact("sessions_total"), TInt(0)), TBin("<=", TFact("sessions_returned"), TFact("sessions_total")))),
     TNamed("retention/no-returns-without-sessions", TImplies(TBin("==", TFact("sessions_total"), TInt(0)), TBin("==", TFact("sessions_returned"), TInt(0)))),
     TNamed("retention/deep-sessions-imply-some-returns", TImplies(TAnd(<<TBin(">=", TFact("depth_p90"), TInt(10)), TBin(">=", TFact("sessions_total"), TInt(5))>>), TBin(">=", TFact("sessions_returned"), TInt(1)))) >>

\* usersim.constraints.privacy.data_exposure
data_exposure(max_pii_exposed) ==
  << TNamed("privacy/no-pii-in-output", TImplies(TBin(">=", TFact("pii_fields_total"), TInt(0)), TBin(">=", TInt(max_pii_exposed), TFact("pii_fields_exposed")))),
     TNamed("privacy/exposed-never-exceeds-total", TImplies(TBin(">=", TFact("pii_fields_total"), TInt(0)), TBin("<=", TFact("pii_fields_exposed"), TFact("pii_fields_total")))),
     TNamed("privacy/anonymization-reduces-exposure", TImplies(TAnd(<<TFact("anonymized"), TBin(">=", TFact("pii_fields_total"), TInt(1))>>), TBin("==", TFact("pii_fields_exposed"), TInt(0)))),
     TNamed("privacy/no-exposure-without-data", TImplies(TBin("==", TFact("pii_fields_total"), TInt(0)), TBin("==", TFact("pii_fields_exposed"), TInt(0)))) >>

\* usersim.constraints.privacy.consent
consent ==
  << TNamed("privacy/consent-recorded-before-use", TImplies(TBin(">=", TFact("pii_fields_total"), TInt(1)), TFact("consent_recorded"))),
     TNamed("privacy/no-pii-without-consent", TNot(TAnd(<<TBin(">=", TFact("pii_fields_total"), TInt(1)), TBin(">=", TFact("pii_fields_exposed"), TInt(1)), TNot(TFact("consent_recorded"))>>))) >>

\* usersim.constraints.privacy.audit_trail
audit_trail(max_retention_days) ==
  << TNamed("privacy/audit-log-complete", TImplies(TBin(">=", TFact("audit_events_expected"), TInt(1)), TBin(">=", TFact("audit_events_total"), TFact("audit_events_expected")))),
     TNamed("privacy/no-extra-audit-events", TImplies(TBin(">=", TFact("audit_events_expected"), TInt(1)), TBin("<=", TFact("audit_events_total"), TBin("*", TFact("audit_events_expected"), TInt(2))))),
     TNamed("privacy/retention-within-policy", TImplies(TBin(">=", TFact("data_retention_days"), TInt(0)), TBin(">=", TInt(max_retention_days), TFact("data_retention_days")))),
     TNamed("privacy/retention-positive", TImplies(TBin(">=", TFact("data_retention_days"), TInt(0)), TBin(">=", TFact("data_retention_days"), TInt(1)))),
     TNamed("privacy/retention-implies-audit", TImplies(TAnd(<<TBin(">=", TFact("data_retention_days"), TInt(1)), TBin(">=", TFact("audit_events_expected"), TInt(1))>>), TBin(">=", TFact("audit_events_total"), TInt(1)))) >>

\* usersim.constraints.cli.exit_codes
exit_codes ==
  << TNamed("cli/exit-0-means-success", TImplies(TBin("==", TFact("exit_code"), TInt(0)), TNot(TFact("has_error_message")))),
     TNamed("cli/exit-1-on-user-error", TImplies(TAnd(<<TBin(">=", TFact("exit_code"), TInt(0)), TBin("!=", TFact("exit_code"), TInt(0))>>), TFact("has_error_message"))),
     TNamed("cli/no-traceback-on-success", TImplies(TBin("==", TFact("exit_code"), TInt(0)), TNot(TFact("traceback_present")))),
     TNamed("cli/no-traceback-on-error", TNot(TFact("traceback_present"))),
     TNamed("cli/errors-route-to-stderr", TImplies(TAnd(<<TBin("!=", TFact("exit_code"), TInt(0)), TBin(">=", TFact("exit_code"), TInt(0))>>), TBin(">=", TFact("stderr_bytes"), TInt(1)))),
     TNamed("cli/stderr-not-polluted-on-success", TImplies(TBin("==", TFact("exit_code"), TInt(0)), TBin("==", TFact("stderr_bytes"), TInt(0)))) >>

\* usersim.constraints.cli.output_format
output_format ==
  << TNamed("cli/success-produces-valid-json", TImplies(TBin("==", TFact("exit_code"), TInt(0)), TFact("output_valid_json"))),
     TNamed("cli/success-produces-output", TImplies(TBin("==", TFact("exit_code"), TInt(0)), TBin(">=", TFact("stdout_bytes"), TInt(1)))),
     TNamed("cli/error-path-empty-stdout", TImplies(TAnd(<<TBin(">=", TFact("exit_code"), TInt(0)), TBin("!=", TFact("exit_code"), TInt(0))>>), TBin("==", TFact("stdout_bytes"), TInt(0)))),
     TNamed("cli/valid-json-implies-output-present", TImplies(TFact("output_valid_json"), TBin(">=", TFact("stdout_bytes"), TInt(2)))) >>

\* usersim.constraints.cli.timing
timing(max_ms, min_ms) ==
  << TNamed("cli/timing-under-ceiling", TImplies(TBin(">=", TFact("wall_clock_ms"), TInt(0)), TBin(">=", TInt(max_ms), TFact("wall_clock_ms")))),
     TNamed("cli/timing-floor-when-output-produced", TImplies(TBin(">=", TFact("stdout_bytes"), TInt(1)), TBin("<=", TInt(min_ms), TFact("wall_clock_ms")))),
     TNamed("cli/timing-non-negative", TImplies(TBin(">=", TFact("wall_clock_ms"), TInt(0)), TBin(">=", TFact("wall_clock_ms"), TInt(0)))) >>

\* a persona per group, calling it with its default thresholds
LibraryPersons ==
  {Persona("error_rate", "", "", error_rate(1)),
   Persona("latency", "", "", latency(200, 500, 1000)),
   Persona("availability", "", "", availability(99)),
   Persona("throughput_floor", "", "", throughput_floor(100)),
   Persona("queue_depth", "", "", queue_depth(1000, 100)),
   Persona("result_count", "", "", result_count(1, 100)),
   Persona("precision", "", "", precision(80)),
   Persona("recall", "", "", recall(60)),
   Persona("session_depth", "", "", session_depth(3, 8, 30)),
   Persona("return_rate", "", "", return_rate(20)),
   Persona("data_exposure", "", "", data_exposure(0)),
   Persona("consent", "", "", consent),
   Persona("audit_trail", "", "", audit_trail(365)),
   Persona("exit_codes", "", "", exit_codes),
   Persona("output_format", "", "", output_format),
   Persona("timing", "", "", timing(10000, 1))}

\* TestComposition.ALL_FACTS: a scenario that measured every library fact
HealthyFacts ==
  [n \in FactNames |->
     CASE n \in {"anonymized", "consent_recorded", "output_valid_json"} -> FBool(TRUE)
       [] n \in {"has_error_message", "traceback_present"} -> FBool(FALSE)
       [] n \in {"error_total", "dropped_items", "pii_fields_exposed", "exit_code", "stderr_bytes"} -> FNum(0)
       [] n \in {"request_total", "p50_ms", "stdout_bytes"} -> FNum(100)
       [] n = "p95_ms" -> FNum(200)
       [] n = "p99_ms" -> FNum(400)
       [] n = "uptime_pct" -> FNum(99)
       [] n = "consecutive_errors" -> FNum(1)
       [] n \in {"items_processed", "items_total"} -> FNum(500)
       [] n = "elapsed_ms" -> FNum(1000)
       [] n \in {"queue_depth", "results_returned", "top_k"} -> FNum(10)
       [] n = "worker_count" -> FNum(4)
       [] n = "results_relevant" -> FNum(9)
       [] n \in {"total_relevant", "depth_p90"} -> FNum(12)
       [] n = "corpus_size" -> FNum(50)
       [] n \in {"depth_p50", "audit_events_total", "audit_events_expected"} -> FNum(5)
       [] n = "sessions_total" -> FNum(20)
       [] n = "sessions_returned" -> FNum(8)
       [] n \in {"bounce_count", "pii_fields_total"} -> FNum(3)
       [] n = "task_completion_pct" -> FNum(85)
       [] n = "data_retention_days" -> FNum(90)
       [] n = "wall_clock_ms" -> FNum(250)
       [] OTHER -> Absent]

\* every library fact measured with the same number
UniformFacts(i) == [n \in FactNames |-> IF n \in LibNames THEN FNum(i) ELSE Absent]

\* the scenarios the library is judged on: none of its facts measured, all
\* of them, all but one, and all equal
LibFactMaps ==
  {EmptyFacts, HealthyFacts}
    \cup {[HealthyFacts EXCEPT ![n] = Absent] : n \in LibNames}
    \cup {UniformFacts(i) : i \in -1..MaxVal}

\* the names the harness reads through the namespace: the core facts under
\* their raw and sanitised names, their aliases, a library fact, a name no
\* scenario measures, and the reserved key
LookupNames ==
  CoreNames \cup {Safe(n) : n \in CoreNames} \cup {BoolAlias(Safe(n)) : n \in CoreNames}
    \cup {"exit_code", "z", "_assignments"}


(***************************************************************************)
(* Spec: one call of evaluate_person, or one attribute read of a fact      *)
(* namespace, on arbitrary inputs.                                         *)
(***************************************************************************)
NoPerson == Persona("", "", "", <<>>)

NoOutcome == Raised("")

\* no command has run
NoRun == [cmd |-> ""]

NoProc == [returned |-> FALSE, code |-> 0, exc |-> "", written |-> <<>>, entries |-> <<>>]

\* the (persona, facts) pairs the harness judges
JudgeInputs == (Persons \X FactMaps) \cup ({BulkPerson} \X BulkFactMaps)

Init ==
  /\ pc = "idle"
  /\ person = NoPerson
  /\ facts = EmptyFacts
  /\ outcome = NoOutcome
  /\ attr = [name |-> "", got |-> AttrExpr(Sentinel)]
  /\ run = NoRun
  /\ proc = NoProc

\* evaluate_person(p, fs) on a persona and a facts map
Judge ==
  /\ pc = "idle"
  /\ pc' = "judged"
  /\ \E in \in JudgeInputs :
       /\ person' = in[1]
       /\ facts' = in[2]
       /\ outcome' = evaluate_person(in[1], in[2])
  /\ UNCHANGED <<attr, run, proc>>

\* getattr(FactNamespace(_make_fact_vars(fs)), n)
ReadFact ==
  /\ pc = "idle"
  /\ pc' = "read"
  /\ \E fs \in FactMaps, n \in LookupNames :
       /\ facts' = fs
       /\ attr' = [name |-> n, got |-> FactNamespace_getattr(_make_fact_vars(fs), n)]
  /\ UNCHANGED <<person, outcome, run, proc>>

Reset ==
  /\ pc \in {"judged", "read", "done", "again"}
  /\ pc' = "idle"
  /\ person' = NoPerson
  /\ facts' = EmptyFacts
  /\ outcome' = NoOutcome
  /\ attr' = [name |-> "", got |-> AttrExpr(Sentinel)]
  /\ run' = NoRun
  /\ proc' = NoProc

Next == Judge \/ ReadFact \/ Reset

Spec == Init /\ [][Next]_vars

(***************************************************************************)
(* SpecLibrary: evaluate_person on a persona that returns one library      *)
(* group.                                                                  *)
(***************************************************************************)
JudgeLibrary ==
  /\ pc = "idle"
  /\ pc' = "judged"
  /\ \E p \in LibraryPersons, fs \in LibFactMaps :
       /\ person' = p
       /\ facts' = fs
       /\ outcome' = evaluate_person(p, fs)
  /\ UNCHANGED <<attr, run, proc>>

\* 2^53, from which on not every int is a double
TwoTo53 == <<0, 0, 0, 256>>

\* request and error counts: small ones, and ones around 2^53
SmallCounts == {0, 1, 2, 3, 50, 100, 200}

WideOffsets == {0, 1, 2, 3}

CountFacts == {FNum(i) : i \in SmallCounts} \cup {FWide(WideAdd(TwoTo53, k)) : k \in WideOffsets}

\* the thresholds given to error_rate
MaxPcts == {1, 2, 5, 100}

\* evaluate_person on a persona whose constraints are error_rate(P, max_pct)
JudgeErrorRate ==
  /\ pc = "idle"
  /\ pc' = "judged"
  /\ \E r \in CountFacts, e \in CountFacts, max_pct \in MaxPcts :
       /\ person' = Persona("error_rate", "", "", error_rate(max_pct))
       /\ facts' = [EmptyFacts EXCEPT !["request_total"] = r, !["error_total"] = e]
       /\ outcome' = evaluate_person(person', facts')
  /\ UNCHANGED <<attr, run, proc>>

NextLibrary == JudgeLibrary \/ JudgeErrorRate \/ Reset

SpecLibrary == Init /\ [][NextLibrary]_vars

(***************************************************************************)
(* SpecRun: `usersim run` (cmd_run) and run_from_config called with tags,  *)
(* on bounded configs.                                                     *)
(***************************************************************************)
\* fails half of its constraints when x is 0, all when x is absent
HalfPerson == Persona("half", "", "", <<Ge0("x"), TBin(">=", TFact("x"), TInt(1))>>)

\* satisfied whenever x was measured
GatePerson == Persona("gate", "", "", <<Ge0("x")>>)

Raising(exc) == Persona("raises", exc, "boom", <<>>)

\* the personas the config's user files define, in load order
UserLists ==
  {<<>>, <<GatePerson>>, <<HalfPerson, GatePerson>>,
   <<GatePerson, Raising("ValueError"), HalfPerson>>,
   <<Raising("TypeError"), GatePerson>>,
   <<Raising("AttributeError"), GatePerson>>,
   <<Raising("RuntimeError")>>}

ScenarioNames == <<"s1", "s2", "s3">>

InstrKinds == {"nonzero", "invalid_json", "bad_schema", "no_metrics"}

PercKinds == {"nonzero", "invalid_json", "bad_schema", "no_facts", "no_person", "raises"}

\* what the stages of a path can do: both succeed and report x absent, 0 or
\* 1, or one of them fails
StageKinds ==
  {[instr |-> "ok", perc |-> "ok", facts |-> fs] : fs \in BulkFactMaps}
    \cup {[instr |-> k, perc |-> "ok", facts |-> EmptyFacts] : k \in InstrKinds}
    \cup {[instr |-> "ok", perc |-> k, facts |-> EmptyFacts] : k \in PercKinds}

\* a config of untagged paths whose stages do as w says, for the users u
StageConfig(w, u) ==
  [scenarios |-> [i \in DOMAIN w |-> Scn(ScenarioNames[i], {}, w[i].instr, w[i].perc, w[i].facts)],
   users |-> u]

TagSets == {{}, {"smoke"}, {"expensive"}, {"smoke", "expensive"}}

\* a config of paths tagged as t says, whose stages succeed
TaggedConfig(nm, t) ==
  [scenarios |-> [i \in DOMAIN t |-> Scn(nm[i], t[i], "ok", "ok", [EmptyFacts EXCEPT !["x"] = FNum(1)])],
   users |-> <<GatePerson>>]

\* the names of the entries of `paths:`: distinct, or the first name twice
PathNameLists == {ScenarioNames, <<"s1", "s1", "s3">>}

NoConfig == [scenarios |-> <<>>, users |-> <<>>]

RunArgs(config, cfg, scenario, quiet, matrix) ==
  [config |-> config, cfg |-> cfg, scenario |-> scenario, quiet |-> quiet, matrix |-> matrix]

TagArgs == TagSets \cup {{"nightly"}}

CmdRunWith(args) ==
  \E a \in {args} :
    /\ run' = [cmd |-> "run", args |-> a]
    /\ proc' = cmd_run(a)

\* usersim run: cmd_run(args), without --scenario, with --scenario naming
\* the first path, and without a usable config file
CmdRun ==
  /\ pc = "idle"
  /\ pc' = "done"
  /\ \/ \E n \in 0..Len(ScenarioNames), u \in UserLists, q \in BOOLEAN, m \in BOOLEAN :
          \E w \in [1..n -> StageKinds] :
            CmdRunWith(RunArgs("ok", StageConfig(w, u), "", q, m))
     \/ \E u \in UserLists :
          \E w \in [1..2 -> StageKinds] :
            CmdRunWith(RunArgs("ok", StageConfig(w, u), ScenarioNames[1], TRUE, FALSE))
     \/ \E k \in {"missing", "invalid"}, q \in BOOLEAN :
          CmdRunWith(RunArgs(k, NoConfig, "", q, FALSE))
  /\ UNCHANGED <<person, facts, outcome, attr>>

\* run_from_config(config, scenario_override, tags=...)
RunFromConfig ==
  /\ pc = "idle"
  /\ pc' = "done"
  /\ \E n \in 0..Len(ScenarioNames), tg \in TagArgs, nm \in PathNameLists :
       \E t \in [1..n -> TagSets] :
         \E o \in {""} \cup {ScenarioNames[i] : i \in 1..n \cap {1}} :
           /\ run' = [cmd |-> "run_from_config",
                      args |-> [cfg |-> TaggedConfig(nm, t), scenario |-> o, tags |-> tg]]
           /\ \E r \in {run_from_config(TaggedConfig(nm, t), o, tg)} :
                proc' = [returned |-> r.exc = "", code |-> 0, exc |-> r.exc,
                         written |-> r.written, entries |-> r.entries]
  /\ UNCHANGED <<person, facts, outcome, attr>>

NextRun == CmdRun \/ RunFromConfig \/ Reset

SpecRun == Init /\ [][NextRun]_vars

(***************************************************************************)
(* SpecJudge: `usersim judge` (cmd_judge) on one perceptions document or   *)
(* on a directory of them.                                                 *)
(***************************************************************************)
\* the perceptions documents judged: well-formed ones for everyone or for
\* one persona, and ones lacking the schema tag, the facts or the person
JudgeDocs ==
  {PerceptionsDoc(PERCEPTIONS_SCHEMA, TRUE, TRUE, who, "p", fs) : who \in {"all", "half"}, fs \in BulkFactMaps}
    \cup {PerceptionsDoc("", TRUE, TRUE, "all", "p", EmptyFacts),
          PerceptionsDoc(PERCEPTIONS_SCHEMA, FALSE, TRUE, "all", "", EmptyFacts),
          PerceptionsDoc(PERCEPTIONS_SCHEMA, TRUE, FALSE, "", "", [EmptyFacts EXCEPT !["x"] = FNum(1)])}

FileStems == <<"a", "b">>

\* the sorted files of a perceptions directory holding the documents d
JudgeFiles(d) == [i \in DOMAIN d |-> [stem |-> FileStems[i], doc |-> d[i]]]

JudgeArgs(perceptions_dir, files, users, quiet) ==
  [perceptions_dir |-> perceptions_dir, files |-> files, users |-> users, quiet |-> quiet]

CmdJudgeWith(args) ==
  \E a \in {args} :
    /\ run' = [cmd |-> "judge", args |-> a]
    /\ proc' = cmd_judge(a)

\* usersim judge: cmd_judge(args) with --perceptions-dir, with --perceptions,
\* and with --perceptions for the bulk persona
CmdJudge ==
  /\ pc = "idle"
  /\ pc' = "done"
  /\ \/ \E n \in 0..Len(FileStems), u \in UserLists, q \in BOOLEAN :
          \E d \in [1..n -> JudgeDocs] :
            CmdJudgeWith(JudgeArgs(TRUE, JudgeFiles(d), u, q))
     \/ \E d \in JudgeDocs, u \in UserLists, q \in BOOLEAN :
          CmdJudgeWith(JudgeArgs(FALSE, JudgeFiles(<<d>>), u, q))
     \/ \E fs \in BulkFactMaps :
          CmdJudgeWith(JudgeArgs(FALSE,
                                 JudgeFiles(<<PerceptionsDoc(PERCEPTIONS_SCHEMA, TRUE, TRUE, "all", "p", fs)>>),
                                 <<BulkPerson>>, TRUE))
  /\ UNCHANGED <<person, facts, outcome, attr>>

NextJudge == CmdJudge \/ Reset

SpecJudge == Init /\ [][NextJudge]_vars

(***************************************************************************)
(* usersim.audit.run_audit on a results document: the keys persons, paths, *)
(* vacuous, always_passing and summary of what it returns (the density     *)
(* tables and the dead-perceptions scan read nothing of these).            *)
(***************************************************************************)
\* one (x, c) of `for x in raw_results: for c in x.get("constraints", [])`
AuditEval(x, c) ==
  [person |-> x.person, path |-> x.path, label |-> c.label, passed |-> c.passed,
   antecedent_fired |-> c.antecedent_fired]

\* every (x, c) of the two nested loops, in order
RECURSIVE AuditEvals(_)
AuditEvals(raw_results) ==
  IF raw_results = <<>> THEN <<>>
  ELSE LET x == Head(raw_results)
       IN  [i \in 1..Len(x.constraints) |-> AuditEval(x, x.constraints[i])] \o AuditEvals(Tail(raw_results))

AuditKey(e) == <<e.person, e.label>>

\* mutant of label_ever_fired: nothing is recorded as fired
label_ever_fired_Never(evals, key) == FALSE

\* label_ever_fired[person][label] after the first loop
label_ever_fired(evals, key) ==
  \E i \in 1..Len(evals) : AuditKey(evals[i]) = key /\ evals[i].antecedent_fired = "True"

\* the second loop: the list `vacuous`, given the keys already in `seen`
RECURSIVE Vacuous(_, _, _)
Vacuous(rest, evals, seen) ==
  IF rest = <<>> THEN <<>>
  ELSE LET e == Head(rest) IN
       IF e.antecedent_fired = "False" /\ AuditKey(e) \notin seen /\ ~label_ever_fired(evals, AuditKey(e))
         THEN <<[person |-> e.person, label |-> e.label]>> \o Vacuous(Tail(rest), evals, seen \cup {AuditKey(e)})
       ELSE Vacuous(Tail(rest), evals, seen)

\* the evaluations label_stats counts: antecedent_fired is not False
Counted(e) == e.antecedent_fired # "False"

\* label_stats[key]
label_stats(evals, key) ==
  [pass  |-> Cardinality({i \in 1..Len(evals) : AuditKey(evals[i]) = key /\ Counted(evals[i]) /\ evals[i].passed}),
   total |-> Cardinality({i \in 1..Len(evals) : AuditKey(evals[i]) = key /\ Counted(evals[i])})]

\* the keys of label_stats in insertion order
RECURSIVE StatKeys(_, _)
StatKeys(rest, seen) ==
  IF rest = <<>> THEN <<>>
  ELSE LET e == Head(rest) IN
       IF Counted(e) /\ AuditKey(e) \notin seen
         THEN <<AuditKey(e)>> \o StatKeys(Tail(rest), seen \cup {AuditKey(e)})
       ELSE StatKeys(Tail(rest), seen)

\* the list always_passing
AlwaysPassing(evals, all_scenarios) ==
  LET keys == StatKeys(evals, {})
      Row(k) == [person |-> k[1], label |-> k[2]] @@ label_stats(evals, k)
      rows == [i \in 1..Len(keys) |-> Row(keys[i])]
      Kept(v) == v.total >= Cardinality(all_scenarios) /\ v.pass = v.total
  IN  SelectSeq(rows, Kept)

\* summary.get(key, 0)
SummaryGet(summary, key) == IF key \in DOMAIN summary THEN summary[key] ELSE 0

run_audit(results) ==
  Let(AuditEvals(results.results), LAMBDA evals :
    Let(<<Vacuous(evals, evals, {}),
          AlwaysPassing(evals, {results.results[i].path : i \in 1..Len(results.results)})>>, LAMBDA lists :
      [persons |-> {results.results[i].person : i \in 1..Len(results.results)},
       paths |-> {results.results[i].path : i \in 1..Len(results.results)},
       vacuous |-> lists[1],
       always_passing |-> lists[2],
       summary |-> [effective_tests |-> SummaryGet(results.summary, "effective_tests"),
                    constraint_evals |-> SummaryGet(results.summary, "constraint_evals"),
                    satisfied |-> SummaryGet(results.summary, "satisfied"),
                    total |-> SummaryGet(results.summary, "total"),
                    vacuous_count |-> Len(lists[1]),
                    always_passing_count |-> Len(lists[2])]]))

NoAudit == [persons |-> {}, paths |-> {}, vacuous |-> <<>>, always_passing |-> <<>>]

\* usersim audit without a results file: the pipeline is run first; the
\* exit code is 1 if a vacuous constraint was found
cmd_audit(args) ==
  Let(run_from_config(args.cfg, "", {}), LAMBDA r :
    IF r.exc \in CaughtByCmdRun THEN [audit |-> NoAudit] @@ Exit(1, r.written, r.entries)
    ELSE IF r.exc # "" THEN [audit |-> NoAudit] @@ Crash(r.exc, r.written, r.entries)
    ELSE Let(run_audit(r.written[1]), LAMBDA a :
           [audit |-> a] @@ Exit(IF a.summary.vacuous_count > 0 THEN 1 ELSE 0, r.written, r.entries)))

(***************************************************************************)
(* SpecAudit: `usersim audit` (cmd_audit) on bounded configs whose         *)
(* personas gate and label their constraints.                              *)
(***************************************************************************)
\* error_total * 100 <= request_total * 50 behind a gate, under a label; an
\* unlabelled implication; an unlabelled comparison of two facts
Auditor ==
  Persona("auditor", "", "",
          <<TNamed("audit/error-rate",
                   TImplies(Ge0("request_total"),
                            TBin("<=", TBin("*", TFact("error_total"), TInt(100)),
                                       TBin("*", TFact("request_total"), TInt(50))))),
            TImplies(Ge0("x"), TBin("<=", TFact("error_total"), TFact("request_total"))),
            TBin("<=", TFact("error_total"), TFact("request_total"))>>)

\* two constraints under one label: a gated one, and one that always holds
Twin ==
  Persona("twin", "", "",
          <<TNamed("dup", TImplies(Ge0("x"), TBin("<=", TFact("x"), TInt(1)))),
            TNamed("dup", TBin(">=", TFact("x"), TInt(-1)))>>)

\* the personas the user files yield, in load order; a file that two
\* patterns of `users:` match is loaded twice
AuditUserLists == {<<Auditor>>, <<Auditor, Twin>>, <<Twin, GatePerson>>, <<GatePerson, GatePerson>>}

\* the facts of the audited scenarios
AuditFactMaps ==
  {[EmptyFacts EXCEPT !["x"] = a, !["error_total"] = b, !["request_total"] = c] :
     a \in {Absent, FNum(1)}, b \in {Absent, FNum(1), FNum(3)}, c \in {Absent, FNum(2)}}

\* what the stages of an audited path do: succeed, or the instrumentation
\* command exits non-zero
AuditStageKinds ==
  {[instr |-> "ok", perc |-> "ok", facts |-> fs] : fs \in AuditFactMaps}
    \cup {[instr |-> "nonzero", perc |-> "ok", facts |-> EmptyFacts]}

CmdAudit ==
  /\ pc = "idle"
  /\ pc' = "done"
  /\ \E n \in 1..Len(ScenarioNames), u \in AuditUserLists :
       \E w \in [1..n -> AuditStageKinds] :
         \E a \in {[cfg |-> StageConfig(w, u)]} :
           /\ run' = [cmd |-> "audit", args |-> a]
           /\ proc' = cmd_audit(a)
  /\ UNCHANGED <<person, facts, outcome, attr>>

NextAudit == CmdAudit \/ Reset

SpecAudit == Init /\ [][NextAudit]_vars

(***************************************************************************)
(* Harness for repeated evaluation: a persona is judged against a facts    *)
(* map, other pairs may be judged, and the first pair is judged again.     *)
(* `run` keeps the first outcome and the table of fact variables that the  *)
(* latest evaluation left on the heap.                                     *)
(***************************************************************************)
\* relabels fact variables after it has used them
Relabeller ==
  Persona("relabeller", "", "",
          <<TBin(">=", TFact("x"), TInt(1)),
            TNamed("reachable", TFact("x_bool")),
            TImplies(TFact("x_bool"), TBin("<=", TFact("y"), TInt(1))),
            TAnd(<<TNamed("small", TFact("y")), TNot(TBin(">", TFact("y"), TInt(1)))>>)>>)

\* one fact variable is an element of the list and is labelled afterwards
Aliased == Persona("aliased", "", "", <<TFact("x_bool"), TNamed("reachable", TFact("x_bool"))>>)

AgainPersons ==
  {Relabeller, Aliased, HalfPerson, GatePerson, EmptyPerson, BarePerson,
   Persona("gated", "", "", <<TNamed("gated/y-small", TImplies(Ge0("x"), TBin("<=", TFact("y"), TInt(1))))>>),
   Raising("AttributeError"), Raising("KeyError")}

AgainFactMaps ==
  {[EmptyFacts EXCEPT !["x"] = a, !["y"] = b] :
     a \in {Absent, FNum(0), FNum(1), FNum(2), FBool(TRUE)}, b \in {Absent, FNum(1), FNum(2)}}

\* the evaluations between the first and the repeated one
MaxBetween == 2

Heap(first, fs, live, between) ==
  [cmd |-> "evaluate_person", first |-> first, facts |-> fs, live |-> live, between |-> between]

JudgeFirst ==
  /\ pc = "idle"
  /\ pc' = "first"
  /\ \E p \in AgainPersons, fs \in AgainFactMaps :
       /\ person' = p
       /\ facts' = fs
       /\ outcome' = evaluate_person(p, fs)
       /\ run' = Heap(outcome', fs, TableAfter(p, fs), 0)
  /\ UNCHANGED <<attr, proc>>

JudgeBetween ==
  /\ pc \in {"first", "between"}
  /\ run.between < MaxBetween
  /\ pc' = "between"
  /\ \E p \in {Relabeller, GatePerson, Raising("KeyError")}, fs \in {facts, [facts EXCEPT !["x"] = FNum(2)]} :
       /\ outcome' = evaluate_person(p, fs)
       /\ run' = Heap(run.first, fs, TableAfter(p, fs), run.between + 1)
  /\ UNCHANGED <<person, facts, attr, proc>>

JudgeAgain ==
  /\ pc \in {"first", "between"}
  /\ pc' = "again"
  /\ outcome' = evaluate_person(person, facts)
  /\ run' = Heap(run.first, facts, TableAfter(person, facts), run.between)
  /\ UNCHANGED <<person, facts, attr, proc>>

NextAgain == JudgeFirst \/ JudgeBetween \/ JudgeAgain \/ Reset

SpecAgain == Init /\ [][NextAgain]_vars

(***************************************************************************)
(* Harness for the target hints: the process starts with or without a      *)
(* working z3, and a persona is judged.  The real solver is taken to       *)
(* decide a constraint over asserted fact values as ground evaluation      *)
(* does.                                                                   *)
(***************************************************************************)
SearchPersons ==
  {Relabeller, HalfPerson, GatePerson, EmptyPerson, BarePerson, Persona("error_rate", "", "", error_rate(1)),
   Raising("AttributeError"), Raising("KeyError")}

SearchFactMaps ==
  {[EmptyFacts EXCEPT !["x"] = a, !["y"] = b, !["request_total"] = c, !["error_total"] = b] :
     a \in {Absent, FNum(0), FNum(1)}, b \in {Absent, FNum(1), FNum(2)}, c \in {Absent, FNum(100)}}

\* import usersim.judgement.z3_compat
ImportSolver ==
  /\ pc = "idle"
  /\ pc' = "imported"
  /\ \E k \in SolverKinds : run' = [cmd |-> "search", z3 |-> k]
  /\ UNCHANGED <<person, facts, outcome, attr, proc>>

JudgeSearch ==
  /\ pc = "imported"
  /\ pc' = "judged"
  /\ \E p \in SearchPersons, fs \in SearchFactMaps :
       /\ person' = p
       /\ facts' = fs
       /\ outcome' = evaluate_person(p, fs)
  /\ UNCHANGED <<attr, run, proc>>

NextSearch == ImportSolver \/ JudgeSearch \/ Reset

SpecSearch == Init /\ [][NextSearch]_vars

(***************************************************************************)
(* SpecStages: run_from_config statement by statement.  run holds the      *)
(* paths to run, the index of the path in hand, the statement about to     *)
(* run and the log of the stages that ran; proc holds all_results and the  *)
(* documents written so far.                                               *)
(***************************************************************************)
Event(i, stage) == [path |-> i, stage |-> stage]

\* what the run is judged by
StageUserLists == {<<GatePerson>>, <<HalfPerson, GatePerson>>, <<Raising("TypeError"), GatePerson>>}

\* the most paths of a stepped run
MaxStagePaths == 2

\* the head of `for path in paths`: the next path's first stage, or the
\* statements after the loop
LoopHead(paths, i) == IF i > Len(paths) THEN "assemble" ELSE "instrumentation"

\* mutant of JudgeInProcess: judgement through run_judgement, which writes
\* its results document
JudgeInProcess_Writing(doc, users) ==
  Let(_evaluate(doc, users), LAMBDA ev :
    [exc |-> ev.exc, msg |-> ev.msg, results |-> ev.doc.results,
     written |-> IF ev.exc = "" THEN <<ev.doc>> ELSE <<>>])

\* step 3 of the try block: _evaluate(perc_doc, user_files), which writes
\* nothing
JudgeInProcess(doc, users) ==
  Let(_evaluate(doc, users), LAMBDA ev :
    [exc |-> ev.exc, msg |-> ev.msg, results |-> ev.doc.results, written |-> <<>>])

\* run_from_config(cfg) up to its loop
StartRun ==
  /\ pc = "idle"
  /\ pc' = "loop"
  /\ \E n \in 0..MaxStagePaths, u \in StageUserLists :
       \E w \in [1..n -> StageKinds] :
         \E paths \in {PathsToRun(StageConfig(w, u), "", {})} :
           run' = [cmd |-> "stages", args |-> [cfg |-> StageConfig(w, u)], paths |-> paths,
                   i |-> 1, at |-> LoopHead(paths, 1), log |-> <<>>]
  /\ proc' = NoProc
  /\ UNCHANGED <<person, facts, outcome, attr>>

\* one statement of the try block has run and raised exc ("" if it
\* returned): the next statement, or the except clause and the append of the
\* error entry, or the exception leaves run_from_config
AfterStage(stage, exc, msg, next) ==
  LET log == Append(run.log, Event(run.i, stage)) IN
  IF exc = ""
    THEN /\ pc' = "loop"
         /\ run' = [run EXCEPT !.at = next, !.log = log]
         /\ proc' = proc
  ELSE IF exc \in CaughtByRunner
    THEN /\ pc' = "loop"
         /\ run' = [run EXCEPT !.i = @ + 1, !.at = LoopHead(run.paths, run.i + 1), !.log = log]
         /\ proc' = [proc EXCEPT !.entries = Append(@, PathEntry(run.paths[run.i].name, <<>>, msg))]
  ELSE /\ pc' = "done"
       /\ run' = [run EXCEPT !.at = "aborted", !.log = log]
       /\ proc' = [proc EXCEPT !.exc = exc]

StepInstrumentation ==
  /\ pc = "loop" /\ run.at = "instrumentation"
  /\ AfterStage("instrumentation", _run_command(run.paths[run.i].instr),
                "instrumentation command failed", "validate_metrics")
  /\ UNCHANGED <<person, facts, outcome, attr>>

StepValidateMetrics ==
  /\ pc = "loop" /\ run.at = "validate_metrics"
  /\ AfterStage("validate_metrics", validate_metrics(InstrumentationDoc(run.paths[run.i])),
                "malformed metrics", "perceptions")
  /\ UNCHANGED <<person, facts, outcome, attr>>

StepPerceptions ==
  /\ pc = "loop" /\ run.at = "perceptions"
  /\ AfterStage("perceptions", _run_perceptions_cmd(run.paths[run.i].perc),
                "perceptions command failed", "validate_perceptions")
  /\ UNCHANGED <<person, facts, outcome, attr>>

StepValidatePerceptions ==
  /\ pc = "loop" /\ run.at = "validate_perceptions"
  /\ AfterStage("validate_perceptions", validate_perceptions(StagePerceptionsDoc(run.paths[run.i])),
                "malformed perceptions", "judgement")
  /\ UNCHANGED <<person, facts, outcome, attr>>

\* step 3 and, when it returns, all_results.append((path, result))
StepJudgement ==
  /\ pc = "loop" /\ run.at = "judgement"
  /\ \E j \in {JudgeInProcess(StagePerceptionsDoc(run.paths[run.i]), run.args.cfg.users)} :
       IF j.exc = ""
         THEN /\ pc' = "loop"
              /\ run' = [run EXCEPT !.i = @ + 1, !.at = LoopHead(run.paths, run.i + 1),
                                    !.log = Append(@, Event(run.i, "judgement"))]
              /\ proc' = [proc EXCEPT !.entries = Append(@, PathEntry(run.paths[run.i].name, j.results, "")),
                                      !.written = @ \o j.written]
         ELSE AfterStage("judgement", j.exc, j.msg, "")
  /\ UNCHANGED <<person, facts, outcome, attr>>

\* the statements after the loop: the matrix is assembled and handed to
\* _write_output, and run_from_config returns
StepWrite ==
  /\ pc = "loop" /\ run.at = "assemble"
  /\ pc' = "done"
  /\ run' = [run EXCEPT !.at = "written"]
  /\ proc' = [proc EXCEPT !.returned = TRUE,
                          !.written = Append(@, Let(Flatten(proc.entries), LAMBDA flat : MatrixDoc(flat)))]
  /\ UNCHANGED <<person, facts, outcome, attr>>

NextStages ==
  \/ StartRun
  \/ StepInstrumentation
  \/ StepValidateMetrics
  \/ StepPerceptions
  \/ StepValidatePerceptions
  \/ StepJudgement
  \/ StepWrite
  \/ Reset

SpecStages == Init /\ [][NextStages]_vars

(***************************************************************************)
(* Properties of evaluate_person and of the fact namespace (Spec).         *)
(***************************************************************************)
\* evaluate_person returned a result
Judged == pc = "judged" /\ outcome.status = "return"

\* the number of constraints of a result that passed
PassedCount(r) == Cardinality({i \in 1..Len(r.constraints) : r.constraints[i].passed})

Abs(i) == IF i < 0 THEN 0 - i ELSE i

\* C2: a persona whose constraints() returns an empty list is judged
\* satisfied with score 1.0 and no violations, for every facts map.
C2_EmptyIsVacuousSuccess ==
  (pc = "judged" /\ person.raises = "" /\ Len(person.body) = 0)
    => /\ outcome.status = "return"
       /\ outcome.result.satisfied
       /\ outcome.result.score = ScoreScale
       /\ outcome.result.violations = <<>>

C2_Witness ==
  /\ Judged
  /\ person = EmptyPerson
  /\ facts["x"] = FNum(0) /\ facts["y"] = FBool(FALSE)
  /\ outcome.result.satisfied

RECURSIVE IsImplication(_)
IsImplication(t) == IF t.k = "named" THEN IsImplication(t.args[1]) ELSE t.k = "implies"

\* the antecedent of an implication term
RECURSIVE AntecedentTerm(_)
AntecedentTerm(t) == IF t.k = "named" THEN AntecedentTerm(t.args[1]) ELSE t.args[1]

\* the term holds under the facts
HoldsUnder(t, fs) == Truthy(Call(Build(t, _make_fact_vars(fs))))

\* C4: antecedent_fired is null exactly for the constraints that are not
\* implications; for an implication, labelled or not, it is true exactly
\* when the antecedent alone holds under the facts, whether or not the
\* implication passed.
C4_AntecedentFired ==
  Judged =>
    \A i \in 1..Len(outcome.result.constraints) :
      LET t == person.body[i]
          c == outcome.result.constraints[i]
      IN  /\ c.antecedent_fired \in {"None", "True", "False"}
          /\ (c.antecedent_fired = "None") <=> ~IsImplication(t)
          /\ IsImplication(t) => ((c.antecedent_fired = "True") <=> HoldsUnder(AntecedentTerm(t), facts))

C4_Witness ==
  /\ Judged
  /\ \E i, j, k \in 1..Len(outcome.result.constraints) :
       /\ outcome.result.constraints[i].antecedent_fired = "True" /\ ~outcome.result.constraints[i].passed
       /\ outcome.result.constraints[j].antecedent_fired = "False" /\ outcome.result.constraints[j].passed
       /\ outcome.result.constraints[j].label = "mixed/x-small"
       /\ outcome.result.constraints[k].antecedent_fired = "None"

\* the name is that of a fact of the facts map, sanitised or not
InFactsMap(fs, n) == \E f \in FactNames : fs[f] # Absent /\ n \in {f, Safe(f)}

\* the name is the sanitised name of a fact of the map, the Bool alias of a
\* numeric fact equal to 0 or 1, or "_assignments"
Resolves(fs, n) ==
  \/ n = "_assignments"
  \/ \E f \in FactNames : fs[f] # Absent /\ n = Safe(f)
  \/ \E f \in FactNames : fs[f].t = "num" /\ fs[f].v \in {0, 1} /\ n = Safe(f) \o "_bool"

\* the attribute read yielded the sentinel: an expression of value -1, for
\* which the guard `fact >= 0` is false
ReadSentinel(got) ==
  /\ got.kind = "expr"
  /\ Call(got.e) = PyNum(-1)
  /\ ~SolverCheck(_binop(got.e, _lit(PyNum(0)), ">="))

GateOf(p) == AntecedentTerm(p.body[1]).args[1].s

\* the fact of that name is in the map with the value -1
IsMinusOne(fs, n) == \E f \in FactNames : Safe(f) = n /\ fs[f] = FNum(-1)

GatePassedUnfired ==
  /\ outcome.result.constraints[1].passed
  /\ outcome.result.constraints[1].antecedent_fired = "False"

C7_LibraryInertOnEmptyFacts ==
  (Judged /\ person \in LibraryPersons /\ facts = EmptyFacts)
    => \A i \in 1..Len(outcome.result.constraints) : outcome.result.constraints[i].passed

(***************************************************************************)
(* Properties of the score (Spec).                                         *)
(***************************************************************************)
\* C1: every result evaluate_person returns has a score between 0.0 and 1.0,
\* and the score is 1.0 exactly when the result is satisfied.
C1_ScoreOneIffSatisfied ==
  Judged =>
    /\ outcome.result.score \in 0..ScoreScale
    /\ (outcome.result.score = ScoreScale) <=> outcome.result.satisfied

\* C8: when a persona's constraints() raises, whatever the exception, no
\* exception escapes evaluate_person: it returns a result that is not
\* satisfied, scores 0.0 and carries exactly one violation.
C8_RaisingPersonaYieldsFailedResult ==
  (pc = "judged" /\ person.raises # "") =>
    /\ outcome.status = "return"
    /\ ~outcome.result.satisfied
    /\ outcome.result.score = 0
    /\ Len(outcome.result.violations) = 1

(***************************************************************************)
(* Properties of the commands (SpecRun, SpecJudge).                        *)
(***************************************************************************)
\* the command ran the pipeline to its end and wrote the document
Completed(cmd) == pc = "done" /\ run.cmd = cmd /\ proc.written # <<>>

\* C9: the score of the matrix summary written by `usersim run` is the mean
\* of the scores of its (persona, scenario) results.
C9_SummaryScoreIsMeanOfPairScores ==
  Completed("run") => proc.written[1].summary.score = MeanScore(proc.written[1].results)

\* C10: when `usersim judge` runs to completion and returns, its exit code
\* is 0 exactly when at least one result was produced and every result is
\* satisfied.
C10_ExitZeroIffAllSatisfied ==
  (Completed("judge") /\ proc.returned) =>
    ((proc.code = 0) <=>
       /\ proc.written[1].summary.total >= 1
       /\ proc.written[1].summary.satisfied = proc.written[1].summary.total)

(***************************************************************************)
(* Properties of the scenario loop of run_from_config (SpecRun).           *)
(***************************************************************************)
\* an external stage of the path fails
StageFails(sc) == sc.instr # "ok" \/ sc.perc # "ok"

\* no persona of the list raises out of evaluate_person
NoPersonaRaises(users) == \A i \in 1..Len(users) : users[i].raises \in {"", "AttributeError"}

\* `usersim run` got past load_config
RanConfig == pc = "done" /\ run.cmd = "run" /\ run.args.config = "ok"

\* the paths of the config that `usersim run` was to process, in order
PathsOfRun == PathsToRun(run.args.cfg, run.args.scenario, {})

\* C11: when a stage of one scenario fails, every scenario of the list is
\* still processed, those whose stages succeed are judged for every persona,
\* and the run ends by writing the matrix document.
C11_LaterScenariosStillRun ==
  (RanConfig /\ NoPersonaRaises(run.args.cfg.users) /\ \E i \in 1..Len(PathsOfRun) : StageFails(PathsOfRun[i]))
    => /\ Len(proc.written) = 1
       /\ Len(proc.entries) = Len(PathsOfRun)
       /\ \A j \in 1..Len(PathsOfRun) :
            ~StageFails(PathsOfRun[j]) => Len(proc.entries[j].results) = Len(run.args.cfg.users)

\* C12: when a stage of a scenario fails and the run writes its document,
\* the document holds a record that names that scenario and its error.
C12_FailedScenarioHasErrorRecord ==
  (RanConfig /\ Len(proc.written) = 1)
    => \A i \in 1..Len(PathsOfRun) :
         StageFails(PathsOfRun[i])
           => \E j \in 1..Len(proc.written[1].results) :
                /\ proc.written[1].results[j].path = PathsOfRun[i].name
                /\ proc.written[1].results[j].error # <<>>

(***************************************************************************)
(* Properties of the judge entry points (SpecJudge).                       *)
(***************************************************************************)
\* the perceptions documents `usersim judge` was given
DocsOfJudge == [i \in 1..Len(run.args.files) |-> run.args.files[i].doc]

\* C13: a perceptions document without the schema tag, the facts object or
\* the person field makes run_judgement and run_matrix raise the validation
\* error, and nothing is evaluated or written.
C13_MalformedDocumentRejected ==
  (pc = "done" /\ run.cmd = "judge" /\ \E i \in 1..Len(DocsOfJudge) : validate_perceptions(DocsOfJudge[i]) # "")
    => /\ proc.exc = "ValueError"
       /\ proc.written = <<>>

(***************************************************************************)
(* Properties of the audit (SpecAudit).                                    *)
(***************************************************************************)
\* `usersim audit` ran the pipeline and analysed the document it returned
Audited == pc = "done" /\ run.cmd = "audit" /\ proc.exc = "" /\ "summary" \in DOMAIN proc.audit

\* the constraint evaluations of the audited document
EvalsOfAudit == AuditEvals(proc.written[1].results)

\* the (persona, label) pairs of the audited document
PairsOfAudit == {AuditKey(EvalsOfAudit[i]) : i \in 1..Len(EvalsOfAudit)}

\* the evaluations of the pair
EvalsOfPair(key) == {i \in 1..Len(EvalsOfAudit) : AuditKey(EvalsOfAudit[i]) = key}

\* how often the pair is listed under `vacuous`
TimesVacuous(key) ==
  Cardinality({j \in 1..Len(proc.audit.vacuous) :
                 <<proc.audit.vacuous[j].person, proc.audit.vacuous[j].label>> = key})

\* the scenarios in which the pair was evaluated
PathsOfPair(key) == {EvalsOfAudit[i].path : i \in EvalsOfPair(key)}

\* C14: a (persona, label) pair whose antecedent was false in every scenario
\* evaluated for the persona is listed under `vacuous` exactly once, and a
\* pair whose antecedent fired in at least one scenario is never listed.
C14_VacuousListedExactlyOnce ==
  Audited =>
    \A key \in PairsOfAudit :
      /\ (\A i \in EvalsOfPair(key) : EvalsOfAudit[i].antecedent_fired = "False")
           => TimesVacuous(key) = 1
      /\ (\E i \in EvalsOfPair(key) : EvalsOfAudit[i].antecedent_fired = "True")
           => TimesVacuous(key) = 0
      /\ TimesVacuous(key) <= 1

\* a pair that never fired in two scenarios is listed, next to a pair of the
\* same document that is not listed because it fired in one of its scenarios
C14_Witness ==
  /\ Audited
  /\ \E key \in PairsOfAudit :
       /\ \A i \in EvalsOfPair(key) : EvalsOfAudit[i].antecedent_fired = "False"
       /\ Cardinality(PathsOfPair(key)) >= 2
       /\ TimesVacuous(key) = 1
  /\ \E key \in PairsOfAudit :
       /\ \E i \in EvalsOfPair(key) : EvalsOfAudit[i].antecedent_fired = "True"
       /\ \E i \in EvalsOfPair(key) : EvalsOfAudit[i].antecedent_fired = "False"
       /\ TimesVacuous(key) = 0

\* the pair is listed under `always_passing`
ListedAlwaysPassing(key) ==
  \E j \in 1..Len(proc.audit.always_passing) :
    <<proc.audit.always_passing[j].person, proc.audit.always_passing[j].label>> = key

RECURSIVE FactsOf(_)
FactsOf(t) ==
  IF t.k = "fact" THEN {t.s}
  ELSE UNION {FactsOf(t.args[i]) : i \in 1..Len(t.args)}

\* the persona of a result, among those the config loads
PersonaOf(name) == CHOOSE u \in {run.args.cfg.users[i] : i \in 1..Len(run.args.cfg.users)} : u.name = name

\* 4^k for the k distinct fact variables of every constraint of the persona
RECURSIVE TestsOfBody(_)
TestsOfBody(body) ==
  IF body = <<>> THEN 0
  ELSE 4 ^ Min(Max(Cardinality(FactsOf(Head(body))), 1), 8) + TestsOfBody(Tail(body))

\* the same, added over the results of a document
RECURSIVE TestsOfResults(_)
TestsOfResults(results) ==
  IF results = <<>> THEN 0
  ELSE TestsOfBody(PersonaOf(Head(results).person).body) + TestsOfResults(Tail(results))

\* C16: every evaluated constraint adds 4^k to summary.effective_tests, k
\* being the number of distinct fact variables the constraint references,
\* clamped to 1..8.
C16_EffectiveTestsCountFactVariables ==
  Audited => proc.written[1].summary.effective_tests = TestsOfResults(proc.written[1].results)

\* the frequency table of the audited document
FreqOfAudit == proc.written[1].summary.constraint_freq

\* the evaluations of constraints labelled L, across all results
EvalsOfLabel(L) == {i \in 1..Len(EvalsOfAudit) : EvalsOfAudit[i].label = L}

\* the totals of the labels of S, added up
RECURSIVE SumOfTotals(_, _)
SumOfTotals(freq, S) ==
  IF S = {} THEN 0
  ELSE LET L == CHOOSE l \in S : TRUE IN freq[L].total + SumOfTotals(freq, S \ {L})

\* C17: for every label L, constraint_freq[L].total is the number of
\* evaluations of constraints labelled L across all results, .failed the
\* number of those that did not pass and .fired the number of those whose
\* antecedent held; fired <= total, failed <= total, and the totals of all
\* labels add up to summary.constraint_evals.
C17_ConstraintFreqCountsEvaluations ==
  Audited =>
    /\ DOMAIN FreqOfAudit = {EvalsOfAudit[i].label : i \in 1..Len(EvalsOfAudit)}
    /\ \A L \in DOMAIN FreqOfAudit :
         /\ FreqOfAudit[L].total = Cardinality(EvalsOfLabel(L))
         /\ FreqOfAudit[L].failed = Cardinality({i \in EvalsOfLabel(L) : ~EvalsOfAudit[i].passed})
         /\ FreqOfAudit[L].fired = Cardinality({i \in EvalsOfLabel(L) : EvalsOfAudit[i].antecedent_fired = "True"})
         /\ FreqOfAudit[L].fired <= FreqOfAudit[L].total
         /\ FreqOfAudit[L].failed <= FreqOfAudit[L].total
    /\ SumOfTotals(FreqOfAudit, DOMAIN FreqOfAudit) = proc.written[1].summary.constraint_evals
    /\ proc.written[1].summary.constraint_evals = Len(EvalsOfAudit)

\* a label evaluated in several results that fired in some of them and failed
\* in some, next to a label of a constraint without antecedent
C17_Witness ==
  /\ Audited
  /\ Len(proc.written[1].results) >= 2
  /\ \E L \in DOMAIN FreqOfAudit :
       /\ FreqOfAudit[L].total >= 3
       /\ FreqOfAudit[L].fired >= 1 /\ FreqOfAudit[L].fired < FreqOfAudit[L].total
       /\ FreqOfAudit[L].failed >= 1 /\ FreqOfAudit[L].failed < FreqOfAudit[L].total
  /\ \E L \in DOMAIN FreqOfAudit :
       /\ FreqOfAudit[L].total >= 2
       /\ FreqOfAudit[L].fired = 0
       /\ \A i \in EvalsOfLabel(L) : EvalsOfAudit[i].antecedent_fired = "None"

(***************************************************************************)
(* Properties of repeated evaluation (SpecAgain).                          *)
(***************************************************************************)
\* label, expression text and flags of the constraints of a result, in order
FlagsOf(r) ==
  [i \in 1..Len(r.constraints) |->
     <<r.constraints[i].label, r.constraints[i].expr, r.constraints[i].passed, r.constraints[i].antecedent_fired>>]

MaxPctOf(p) == p.body[1].args[1].args[2].args[2].args[2].i

\* error_total * 100 <= request_total * max_pct, computed exactly
WithinErrorRate(fs, max_pct) ==
  WideCmp(WideMul(WideOf(fs["error_total"]), 100, 0), WideMul(WideOf(fs["request_total"]), max_pct, 0)) <= 0

\* an error-rate persona was judged on integer facts request_total >= 1 and
\* error_total >= 0
ErrorRateJudged ==
  /\ pc = "judged"
  /\ person.name = "error_rate"
  /\ facts["request_total"].t \in {"num", "wide"} /\ facts["request_total"] # FNum(0)
  /\ facts["error_total"].t \in {"num", "wide"}
  /\ facts = [EmptyFacts EXCEPT !["request_total"] = facts["request_total"], !["error_total"] = facts["error_total"]]

\* C19: for integer facts request_total >= 1 and error_total >= 0 and an
\* integer threshold max_pct, reliability/error-rate-bounded passes if and
\* only if error_total * 100 <= request_total * max_pct, with no tolerance.
C19_ErrorRateBoundIsExact ==
  ErrorRateJudged =>
    /\ outcome.result.constraints[1].label = "reliability/error-rate-bounded"
    /\ outcome.result.constraints[1].passed <=> WithinErrorRate(facts, MaxPctOf(person))

(***************************************************************************)
(* Properties of the target hints (SpecSearch).                            *)
(***************************************************************************)
\* the constraints of the judged persona, built against its facts
BuiltOfJudged == Constraints(person, _make_fact_vars(facts))

\* how many of them hold by ground evaluation
GroundPassed == Cardinality({i \in 1..Len(BuiltOfJudged) : Truthy(Call(BuiltOfJudged[i]))})

\* a persona that returns a non-empty list was judged under some solver
SearchJudged == pc = "judged" /\ run.cmd = "search" /\ person.raises = "" /\ Len(person.body) > 0

MatrixOfAudit == proc.written[1]

\* every scenario of the audited config has stages that succeed
AllStagesSucceed == \A i \in 1..Len(run.args.cfg.scenarios) : ~StageFails(run.args.cfg.scenarios[i])

\* the results of the matrix for a persona name and a scenario name
ResultsOfPair(name, path) ==
  {i \in 1..Len(MatrixOfAudit.results) :
     MatrixOfAudit.results[i].person = name /\ MatrixOfAudit.results[i].path = path}

\* C21: in a matrix in which every scenario's stages succeed, summary.total
\* is the number of distinct persona names times the number of distinct
\* scenario names of the results, and every (persona, scenario) pair of the
\* cross product appears exactly once.
C21_TotalIsPersonsTimesScenarios ==
  (Audited /\ AllStagesSucceed) =>
    /\ MatrixOfAudit.summary.total = Cardinality(proc.audit.persons) * Cardinality(proc.audit.paths)
    /\ \A name \in proc.audit.persons, path \in proc.audit.paths :
         Cardinality(ResultsOfPair(name, path)) = 1

\* `usersim run` wrote a matrix for a config all of whose stages succeed and
\* whose personas all return a list
CleanRun ==
  /\ RanConfig /\ Len(proc.written) = 1
  /\ run.args.cfg.users # <<>> /\ NoPersonaRaises(run.args.cfg.users)
  /\ \A i \in 1..Len(PathsOfRun) : ~StageFails(PathsOfRun[i])

\* C22: every result entry of the matrix written by `usersim run` carries a
\* `scenario` field naming its scenario, the set of these values is the set
\* of scenarios of the config, and the consumers of the document can read
\* the field.
C22_ResultsCarryScenarioField ==
  CleanRun =>
    /\ \A i \in 1..Len(proc.written[1].results) : "scenario" \in DOMAIN proc.written[1].results[i]
    /\ {proc.written[1].results[i].scenario : i \in 1..Len(proc.written[1].results)}
         = {PathsOfRun[j].name : j \in 1..Len(PathsOfRun)}
    /\ proc.exc # "KeyError"

\* the facts map has no entry for the name
AbsentFrom(fs, n) == n \notin DOMAIN fs \/ fs[n] = Absent

\* C23: a persona whose only constraint is a bare reference to a fact that
\* is absent from the facts map gets a result that is not satisfied and
\* carries an error or at least one violation.
C23_MissingBareFactFails ==
  (pc = "judged" /\ person \in LonePersons /\ AbsentFrom(facts, person.body[1].s)) =>
    /\ outcome.status = "return"
    /\ ~outcome.result.satisfied
    /\ outcome.result.error # <<>> \/ outcome.result.violations # <<>>

(***************************************************************************)
(* Properties of label attachment (SpecAgain).                             *)
(***************************************************************************)
\* the term without its named() calls
RECURSIVE Unlabelled(_)
Unlabelled(t) ==
  IF t.k = "named" THEN Unlabelled(t.args[1])
  ELSE [t EXCEPT !.args = [j \in 1..Len(t.args) |-> Unlabelled(t.args[j])]]

\* the persona whose constraints other than the i-th attach no label
OnlyLabelled(p, i) ==
  [p EXCEPT !.body = [j \in 1..Len(p.body) |-> IF j = i THEN p.body[j] ELSE Unlabelled(p.body[j])]]

\* C24: attaching a label with named(label, expr) changes neither the
\* label nor the rendered text nor the value of any other constraint of the
\* same constraints() call: every constraint of a result reads as it does
\* when the other constraints of the list attach no label.
C24_LabelTouchesNoOtherConstraint ==
  (pc \in {"first", "again"} /\ outcome.status = "return") =>
    \A i \in 1..Len(outcome.result.constraints) :
      FlagsOf(outcome.result)[i] = FlagsOf(evaluate_person(OnlyLabelled(person, i), facts).result)[i]

(***************************************************************************)
(* Properties of the tag filter (SpecRun).                                 *)
(***************************************************************************)
\* run_from_config was called without a scenario override
RanUnfiltered == pc = "done" /\ run.cmd = "run_from_config" /\ run.args.scenario = ""

\* the names of the paths that were run
NamesRun == {proc.entries[i].path : i \in 1..Len(proc.entries)}

\* C25: with a non-empty tags argument and no scenario override, only
\* paths whose tags overlap the requested tags are run; a path that
\* declares no tags is not run.
C25_OnlyOverlappingPathsRun ==
  (RanUnfiltered /\ run.args.tags # {}) =>
    \A i \in 1..Len(proc.entries) :
      \E j \in 1..Len(run.args.cfg.scenarios) :
        /\ run.args.cfg.scenarios[j].name = proc.entries[i].path
        /\ run.args.cfg.scenarios[j].tags \cap run.args.tags # {}

\* C26: without a scenario override, a path carrying an opt-in tag is run
\* only when that opt-in tag is among the requested tags: it is skipped
\* when no tags are requested and when only its other tags are requested.
C26_OptInPathNeedsItsTagRequested ==
  RanUnfiltered =>
    \A j \in 1..Len(run.args.cfg.scenarios) :
      (/\ run.args.cfg.scenarios[j].tags \cap _OPT_IN_TAGS # {}
       /\ run.args.cfg.scenarios[j].tags \cap _OPT_IN_TAGS \cap run.args.tags = {})
        => run.args.cfg.scenarios[j].name \notin NamesRun

(***************************************************************************)
(* Properties of the stepped run (SpecStages).                             *)
(***************************************************************************)
StageOrder == <<"instrumentation", "validate_metrics", "perceptions", "validate_perceptions", "judgement">>

\* run_from_config is being stepped, or has ended
Stepping == run.cmd = "stages"

\* the stages that ran for the i-th path, in order
StagesOf(i) ==
  LET OfPath(e) == e.path = i
      mine == SelectSeq(run.log, OfPath)
  IN  [k \in 1..Len(mine) |-> mine[k].stage]

\* both documents of the path have their schema tag and required keys
WellFormedDocs(sc) ==
  /\ InstrumentationDoc(sc).schema = "usersim.metrics.v1" /\ InstrumentationDoc(sc).hasMetrics
  /\ StagePerceptionsDoc(sc).schema = "usersim.perceptions.v1"
  /\ StagePerceptionsDoc(sc).hasFacts /\ StagePerceptionsDoc(sc).hasPerson

\* C27: for every scenario run by run_from_config the stages happen in the
\* order instrumentation, metrics validation, perceptions, perceptions
\* validation, judgement, one scenario after the other; judgement of a
\* scenario starts only after both of its documents passed validation, and
\* a scenario whose validation fails contributes no judgement results.
C27_StagesInOrderAndJudgedAfterValidation ==
  Stepping =>
    /\ \A k \in 1..Len(run.log) - 1 : run.log[k].path <= run.log[k + 1].path
    /\ \A i \in 1..Len(run.paths) :
         /\ Len(StagesOf(i)) <= Len(StageOrder)
         /\ StagesOf(i) = SubSeq(StageOrder, 1, Len(StagesOf(i)))
         /\ (run.i = i /\ run.at = "judgement") \/ Len(StagesOf(i)) = Len(StageOrder)
              => WellFormedDocs(run.paths[i])
         /\ (i <= Len(proc.entries) /\ ~WellFormedDocs(run.paths[i]))
              => /\ proc.entries[i].results = <<>>
                 /\ \A d \in 1..Len(proc.written) : \A r \in 1..Len(proc.written[d].results) :
                      proc.written[d].results[r].path # run.paths[i].name

\* the first path's perceptions document lacks its person field and the
\* second path was judged
C27_Witness ==
  /\ Stepping /\ pc = "done" /\ Len(run.paths) = 2
  /\ run.paths[1].perc = "no_person"
  /\ StagesOf(1) = SubSeq(StageOrder, 1, 4)
  /\ StagesOf(2) = StageOrder
  /\ proc.entries[1].results = <<>>
  /\ proc.entries[2].results # <<>>
  /\ Len(proc.written) = 1 /\ Len(proc.written[1].results) = Len(proc.entries[2].results)

\* C28: run_from_config writes the results document exactly once, and only
\* after every scenario of the list has been processed; if the run aborts
\* part-way, no partial results document is written.
C28_WrittenOnceAfterTheLoop ==
  Stepping =>
    /\ Len(proc.written) <= 1
    /\ proc.written # <<>> =>
         /\ run.at = "written"
         /\ Len(proc.entries) = Len(run.paths)
         /\ \A i \in 1..Len(run.paths) : StagesOf(i) # <<>>
    /\ (pc = "done" /\ proc.exc = "") => Len(proc.written) = 1 /\ proc.returned
    /\ (pc = "done" /\ proc.exc # "") => proc.written = <<>> /\ ~proc.returned

\* the first path was judged and the second path's perceptions script
\* raised an exception the loop does not catch
C28_Witness ==
  /\ Stepping /\ pc = "done" /\ run.at = "aborted"
  /\ Len(run.paths) = 2 /\ run.i = 2
  /\ proc.exc = "KeyError"
  /\ Len(proc.entries) = 1 /\ proc.entries[1].results # <<>>
  /\ proc.written = <<>>

(***************************************************************************)
(* Properties of the implication flags (Spec).                             *)
(***************************************************************************)
\* C29: in every judgement result, an implication constraint whose
\* antecedent_fired is false has passed == true: a constraint is reported
\* as failed only if it is not an implication or its antecedent held.
C29_UnfiredImplicationPasses ==
  Judged =>
    \A i \in 1..Len(outcome.result.constraints) :
      /\ outcome.result.constraints[i].antecedent_fired = "False" => outcome.result.constraints[i].passed
      /\ ~outcome.result.constraints[i].passed => outcome.result.constraints[i].antecedent_fired \in {"None", "True"}

\* Implies(P.x >= 0, False) on a facts map without x: the gate reads the
\* sentinel, the antecedent does not fire and the constraint passes
C29_Witness ==
  /\ Judged
  /\ person = Persona("gated", "", "", <<TImplies(Ge0("x"), TBool(FALSE))>>)
  /\ facts["x"] = Absent
  /\ outcome.result.constraints[1].antecedent_fired = "False"
  /\ outcome.result.constraints[1].passed
  /\ outcome.result.satisfied

(***************************************************************************)
(* Properties of the audit's two lists (SpecAudit).                        *)
(***************************************************************************)
\* C30: no (persona, label) pair is reported by run_audit both under
\* `vacuous` and under `always_passing`.
C30_VacuousAndAlwaysPassingDisjoint ==
  Audited =>
    \A key \in PairsOfAudit : ~(TimesVacuous(key) >= 1 /\ ListedAlwaysPassing(key))

====
